---- MODULE Spec2Model ----
(***************************************************************************)
(* vutils-cli: declarative command-line parsing and sub-command dispatch.  *)
(*                                                                         *)
(* A token is a sequence of one-character strings, so that the tokenizer   *)
(* (startswith, split on "=", the short cluster) is computed character by  *)
(* character.  Python values kept in an option store are tagged records.   *)
(***************************************************************************)
EXTENDS Integers, Sequences, FiniteSets, TLC

VARIABLES
    app,      \* which application (class family) is running
    argv0,    \* the list the caller handed to the root run()
    given,    \* the list handed to the run() of the current command
    cmds,     \* the command instances created so far: [cls, parent, opts]
    cur,      \* index in cmds of the command whose run() is executing
    chain,    \* the parser chain built for the current parse
    state,    \* the State object of the current parse
    node,     \* index in chain of the node whose parse() is executing
    shorts,   \* the unprocessed rest of the short cluster being dispatched
    pc,       \* position in run(): run, update, parse, shorts, subcommand, raised, done
    exc,      \* the exception in flight or last handled
    retcode,  \* the value returned by the root run()
    log       \* the hooks called and the terminators consumed, in order

vars == <<app, argv0, given, cmds, cur, chain, state, node, shorts, pc, exc,
          retcode, log>>

---------------------------------------------------------------------------
(* Bounds *)

MaxArgs == 3

---------------------------------------------------------------------------
(* Python values *)

None == [t |-> "None", v |-> <<>>]
BoolV(b) == [t |-> "bool", v |-> b]
StrV(s) == [t |-> "str", v |-> s]
IntV(n) == [t |-> "int", v |-> n]

\* a keyword that a spec dict does not hold
Absent == [t |-> "absent", v |-> <<>>]

\* Python truth value of an object
Truthy(x) ==
    CASE x.t = "None" -> FALSE
      [] x.t = "bool" -> x.v
      [] x.t = "str" -> x.v # <<>>
      [] x.t = "int" -> x.v # 0
      [] OTHER -> FALSE

\* str.startswith
startswith(s, prefix) ==
    /\ Len(s) >= Len(prefix)
    /\ SubSeq(s, 1, Len(prefix)) = prefix

\* str.split("=", 1): the part before the first "=", and the part after it
\* (has is FALSE when the string holds no "=")
split_eq(s) ==
    LET idx == {i \in 1..Len(s) : s[i] = "="} IN
    IF idx = {}
    THEN [name |-> s, has |-> FALSE, value |-> <<>>]
    ELSE LET i == CHOOSE j \in idx : \A k \in idx : j <= k IN
         [name |-> SubSeq(s, 1, i - 1), has |-> TRUE,
          value |-> SubSeq(s, i + 1, Len(s))]

---------------------------------------------------------------------------
(* Constants of the program *)

EXIT_SUCCESS == 0
EXIT_FAILURE == 1

SUBCOMMAND_SLOT == <<"C", "O", "M", "M", "A", "N", "D">>

---------------------------------------------------------------------------
(* Exceptions *)

NoExc == [kind |-> "", ecode |-> 0, text |-> <<>>]

AppExitError(ecode) == [kind |-> "AppExitError", ecode |-> ecode, text |-> <<>>]

UnknownCommandError(name) ==
    [kind |-> "UnknownCommandError", ecode |-> 0, text |-> name]

OptParseError(reason) ==
    [kind |-> "OptParseError", ecode |-> 0, text |-> reason]

UnknownOptionError(option) ==
    [kind |-> "UnknownOptionError", ecode |-> 0,
     text |-> <<"Unknown option '">> \o option \o <<"'">>]

\* an exception class that is not an ApplicationError
PythonError(kind) == [kind |-> kind, ecode |-> 0, text |-> <<>>]

\* an except clause that catches the option errors only
IsApplicationError_options_only(e) ==
    e.kind \in {"AppExitError", "OptParseError", "UnknownOptionError"}

\* issubclass(kind, ApplicationError)
IsApplicationError(e) ==
    e.kind \in {"AppExitError", "UnknownCommandError", "OptParseError",
                "UnknownOptionError"}

\* the exception classes registered on a command of class cls: __init__
\* registers ApplicationError, the root of the Catch tree also ValueError
elist(cls) ==
    IF cls = "CatchRoot" THEN {"ApplicationError", "ValueError"}
    ELSE {"ApplicationError"}

\* except tuple(self.__elist) of a command of class cls matches e
Caught(cls, e) ==
    \/ "ApplicationError" \in elist(cls) /\ IsApplicationError(e)
    \/ e.kind \in elist(cls)

---------------------------------------------------------------------------
(* Options *)

EmptySpec ==
    [default |-> Absent, value |-> Absent, required |-> Absent,
     keyname |-> Absent, inverse |-> Absent]

\* dict.get(kw, dflt)
spec_get(spec, kw, dflt) == IF spec[kw] = Absent THEN dflt ELSE spec[kw]

\* ensure_key(spec, kw, dflt): set kw to dflt unless the dict holds it
ensure_key(spec, kw, dflt) ==
    IF spec[kw] = Absent THEN [spec EXCEPT ![kw] = dflt] ELSE spec

\* ensure_no_key(spec, kw): drop kw from the dict
ensure_no_key(spec, kw) == [spec EXCEPT ![kw] = Absent]

\* Option.__init__
Option(cls, name, aliases, spec) ==
    [cls |-> cls, name |-> name, aliases |-> aliases, spec |-> spec,
     keyname |-> spec_get(spec, "keyname", StrV(name)).v]

\* PositionalOption.__init__
PositionalOption(name, spec) == Option("PositionalOption", name, <<>>, spec)

ConstOption(name, aliases, spec) == Option("ConstOption", name, aliases, spec)

\* FlagOption.__init__, also run by the constructors of its subclasses
FlagInit(cls, name, aliases, spec) ==
    Option(cls, name, aliases,
           ensure_key(ensure_key(spec, "default", BoolV(FALSE)),
                      "value", BoolV(TRUE)))

FlagOption(name, aliases, spec) == FlagInit("FlagOption", name, aliases, spec)

CountOption(name, aliases, spec) ==
    Option("CountOption", name, aliases, ensure_key(spec, "default", IntV(0)))

KVOption(name, aliases, spec) == Option("KVOption", name, aliases, spec)

Name_help == <<"h", "e", "l", "p">>
Name_version == <<"v", "e", "r", "s", "i", "o", "n">>

HelpOption == FlagInit("HelpOption", Name_help, <<"h">>, EmptySpec)

VersionOption == FlagInit("VersionOption", Name_version, <<>>, EmptySpec)

\* the builders of options.py
constant(name, aliases, spec) == ConstOption(name, aliases, spec)

flag(name, aliases, spec) == FlagOption(name, aliases, spec)

\* switch whose inverse flag stores under its own name
switch_own_keys(name, spec) ==
    LET s == ensure_no_key(ensure_no_key(ensure_no_key(spec, "value"),
                                         "keyname"), "inverse")
        no == <<"n", "o", "-">> \o name
    IN  << flag(name, <<>>, [s EXCEPT !.inverse = StrV(no)]),
           flag(no, <<>>, [s EXCEPT !.value = BoolV(FALSE)]) >>

switch(name, spec) ==
    LET s == ensure_no_key(ensure_no_key(ensure_no_key(spec, "value"),
                                         "keyname"), "inverse")
        no == <<"n", "o", "-">> \o name
    IN  << flag(name, <<>>, [s EXCEPT !.inverse = StrV(no)]),
           flag(no, <<>>, [s EXCEPT !.keyname = StrV(name),
                                    !.value = BoolV(FALSE)]) >>

counter(name, aliases, spec) == CountOption(name, aliases, spec)

keyval(name, aliases, spec) == KVOption(name, aliases, spec)

positional(name, spec) == PositionalOption(name, spec)

\* subcommand keeping the keyname its caller supplied
subcommand_keeps_keyname(name, spec) ==
    positional(name, ensure_key(spec, "keyname", StrV(SUBCOMMAND_SLOT)))

subcommand(name, spec) ==
    positional(name, [ensure_no_key(spec, "keyname")
                        EXCEPT !.keyname = StrV(SUBCOMMAND_SLOT)])

\* Option.get_default
get_default(opt) == spec_get(opt.spec, "default", None)

\* Option.required
required(opt) == Truthy(spec_get(opt.spec, "required", BoolV(FALSE)))

\* isinstance(opt, PositionalOption)
IsPositional(opt) == opt.cls = "PositionalOption"

---------------------------------------------------------------------------
(* Parser chain: a sequence of nodes, each node's next being its successor *)

NoOption == Option("", <<>>, <<>>, EmptySpec)

EmptyMap == [k \in {} |-> NoOption]

\* OptionParser.__init__: the inert base node
OptionParser ==
    [cls |-> "OptionParser", long_opts |-> EmptyMap, short_opts |-> EmptyMap,
     action |-> NoOption]

\* PosArg.__init__
PosArg(opt) == [OptionParser EXCEPT !.cls = "PosArg", !.action = opt]

\* OptionSet.merge
merge(self, other) ==
    [self EXCEPT !.long_opts = other.long_opts @@ self.long_opts,
                 !.short_opts = other.short_opts @@ self.short_opts]

\* OptionSet.add_options keeping the entries the tables already hold
add_options_keeps_first(self, option) ==
    IF option.cls = "OptionSet"
    THEN [self EXCEPT !.long_opts = self.long_opts @@ option.long_opts,
                      !.short_opts = self.short_opts @@ option.short_opts]
    ELSE [self EXCEPT
            !.long_opts = self.long_opts @@ (option.name :> option),
            !.short_opts =
                self.short_opts @@
                [a \in {option.aliases[i] : i \in 1..Len(option.aliases)}
                    |-> option]]

\* OptionSet.add_options, for one option (or one nested option set)
add_options(self, option) ==
    IF option.cls = "OptionSet"
    THEN merge(self, option)
    ELSE [self EXCEPT
            !.long_opts = (option.name :> option) @@ self.long_opts,
            !.short_opts =
                [a \in {option.aliases[i] : i \in 1..Len(option.aliases)}
                    |-> option] @@ self.short_opts]

\* OptionSet.__init__ with one option
OptionSet(option) ==
    add_options([OptionParser EXCEPT !.cls = "OptionSet"], option)

\* add_to_parser chaining a new node for every declaration
add_to_parser_node_each(ch, opt) ==
    Append(ch, IF IsPositional(opt) THEN PosArg(opt) ELSE OptionSet(opt))

\* add_to_parser: ch is the chain built so far, its last node the tail
add_to_parser(ch, opt) ==
    IF ch = <<>>
    THEN << IF IsPositional(opt) THEN PosArg(opt) ELSE OptionSet(opt) >>
    ELSE IF IsPositional(opt)
    THEN Append(ch, PosArg(opt))
    ELSE IF ch[Len(ch)].cls = "PosArg"
    THEN Append(ch, OptionSet(opt))
    ELSE [ch EXCEPT ![Len(ch)] = add_options(ch[Len(ch)], opt)]

\* flatten: the declarations of the groups of an OPTSPEC, in order
RECURSIVE flatten(_)
flatten(optspec) ==
    IF optspec = <<>> THEN <<>>
    ELSE Head(optspec) \o flatten(Tail(optspec))

RECURSIVE build_chain(_, _)
build_chain(ch, opts) ==
    IF opts = <<>> THEN ch
    ELSE build_chain(add_to_parser(ch, Head(opts)), Tail(opts))

\* build_parser
build_parser(optspec) ==
    LET ch == build_chain(<<>>, flatten(optspec)) IN
    IF ch = <<>> THEN <<OptionParser>> ELSE ch

---------------------------------------------------------------------------
(* Commands: c is the sequence of command instances, i the index of one *)

EmptyStore == [k \in {} |-> None]

\* CommandMixin.__init__ dropping the parent it is given
Command_without_parent(cls, parent) ==
    [cls |-> cls, parent |-> 0, opts |-> EmptyStore]

\* CommandMixin.__init__
Command(cls, parent) == [cls |-> cls, parent |-> parent, opts |-> EmptyStore]

\* set_optval writing where get_optval would read
set_optval_at_holder(c, i, name, value) ==
    LET j == IF name \notin DOMAIN c[i].opts /\ c[i].parent # 0
             THEN c[i].parent ELSE i
    IN  [c EXCEPT ![j].opts = (name :> value) @@ c[j].opts]

\* CommandMixin.set_optval
set_optval(c, i, name, value) ==
    [c EXCEPT ![i].opts = (name :> value) @@ c[i].opts]

\* the loop of get_optval climbing while the value found is None
RECURSIVE get_optval_cmd_by_value(_, _, _)
get_optval_cmd_by_value(c, i, name) ==
    IF /\ \/ name \notin DOMAIN c[i].opts
          \/ c[i].opts[name] = None
       /\ c[i].parent # 0
    THEN get_optval_cmd_by_value(c, c[i].parent, name)
    ELSE i

\* the command at which the loop of get_optval stops
RECURSIVE get_optval_cmd(_, _, _)
get_optval_cmd(c, i, name) ==
    IF name \notin DOMAIN c[i].opts /\ c[i].parent # 0
    THEN get_optval_cmd(c, c[i].parent, name)
    ELSE i

\* CommandMixin.get_optval
get_optval(c, i, name, default) ==
    LET j == get_optval_cmd(c, i, name) IN
    IF name \in DOMAIN c[j].opts THEN c[j].opts[name] ELSE default

\* the defaults one node contributes, written by set_optval
node_defaults(c, i, parser) ==
    IF parser.cls = "PosArg"
    THEN set_optval(c, i, parser.action.name, get_default(parser.action))
    ELSE IF parser.cls = "OptionSet"
    THEN LET acts == {parser.long_opts[n] : n \in DOMAIN parser.long_opts} IN
         [c EXCEPT ![i].opts =
            [k \in {a.name : a \in acts}
                |-> get_default(CHOOSE a \in acts : a.name = k)] @@ c[i].opts]
    ELSE c

\* CommandMixin.set_opts_defaults, from node k of the chain to its end
RECURSIVE set_opts_defaults(_, _, _, _)
set_opts_defaults(c, i, ch, k) ==
    IF k > Len(ch) THEN c
    ELSE set_opts_defaults(node_defaults(c, i, ch[k]), i, ch, k + 1)

---------------------------------------------------------------------------
(* Actions of the options.  A call yields the stores, the token vector,  *)
(* the returned value, the exception raised and the hooks called.        *)

Event(ev, i, arg) == [ev |-> ev, cmd |-> i, arg |-> arg]

Returned(c, argv, ret) ==
    [cmds |-> c, argv |-> argv, ret |-> ret, exc |-> NoExc, out |-> <<>>]

Raised(c, argv, e, out) ==
    [cmds |-> c, argv |-> argv, ret |-> None, exc |-> e, out |-> out]

\* Option.assert_not_keyval
assert_not_keyval(opt, value, alias) ==
    IF value # <<>> /\ alias = ""
    THEN OptParseError(<<"Option --">> \o opt.name
                       \o <<" is not a key-value option">>)
    ELSE NoExc

\* PositionalOption.__call__
PositionalOption_call(opt, c, i, argv, value, alias) ==
    Returned(set_optval(c, i, opt.keyname, value), argv, None)

\* ConstOption.__call__ dropping the rest of the cluster
ConstOption_call_drops_rest(opt, c, i, argv, value, alias) ==
    Returned(set_optval(c, i, opt.keyname,
                        spec_get(opt.spec, "value", BoolV(TRUE))),
             argv, IF alias # "" THEN StrV(<<>>) ELSE None)

\* ConstOption.__call__ writing the value before it checks the call
ConstOption_call_writes_first(opt, c, i, argv, value, alias) ==
    LET e == IF value.v # <<>> /\ alias = ""
             THEN OptParseError(<<"Option --">> \o opt.name
                                \o <<" is not a key-value option">>)
             ELSE NoExc
        w == set_optval(c, i, opt.keyname,
                        spec_get(opt.spec, "value", BoolV(TRUE)))
    IN  IF e # NoExc THEN Raised(w, argv, e, <<>>)
        ELSE Returned(w, argv, IF alias # "" THEN value ELSE None)

\* ConstOption.__call__
ConstOption_call(opt, c, i, argv, value, alias) ==
    LET e == assert_not_keyval(opt, value.v, alias) IN
    IF e # NoExc THEN Raised(c, argv, e, <<>>)
    ELSE Returned(set_optval(c, i, opt.keyname,
                             spec_get(opt.spec, "value", BoolV(TRUE))),
                  argv, IF alias # "" THEN value ELSE None)

\* optval + 1
PlusOne(x) ==
    CASE x.t = "int" -> IntV(x.v + 1)
      [] x.t = "bool" -> IntV((IF x.v THEN 1 ELSE 0) + 1)
      [] OTHER -> None

\* CountOption.__call__ counting from 0 whatever the store holds
CountOption_call_from_zero(opt, c, i, argv, value, alias) ==
    LET e == assert_not_keyval(opt, value.v, alias) IN
    IF e # NoExc THEN Raised(c, argv, e, <<>>)
    ELSE Returned(set_optval(c, i, opt.name, IntV(1)),
                  argv, IF alias # "" THEN value ELSE None)

\* CountOption.__call__
CountOption_call(opt, c, i, argv, value, alias) ==
    LET e == assert_not_keyval(opt, value.v, alias)
        optval == get_optval(c, i, opt.name, IntV(0))
    IN  IF e # NoExc THEN Raised(c, argv, e, <<>>)
        ELSE IF PlusOne(optval) = None
        THEN Raised(c, argv, PythonError("TypeError"), <<>>)
        ELSE Returned(set_optval(c, i, opt.name, PlusOne(optval)),
                      argv, IF alias # "" THEN value ELSE None)

\* KVOption.__call__ taking the following token even when a value is given
KVOption_call_takes_next(opt, c, i, argv, value, alias) ==
    IF argv = <<>>
    THEN Raised(c, argv, OptParseError(<<"Option requires a value">>), <<>>)
    ELSE Returned(set_optval(c, i, opt.name, StrV(Head(argv))), Tail(argv),
                  IF alias # "" THEN StrV(<<>>) ELSE None)

\* KVOption.__call__ naming the long form in every missing-value message
KVOption_call_names_long(opt, c, i, argv, value, alias) ==
    IF ~Truthy(value) /\ argv = <<>>
    THEN Raised(c, argv,
                OptParseError(<<"Option ">> \o <<"-", "-">> \o opt.name
                              \o <<" requires a value">>), <<>>)
    ELSE LET val == IF ~Truthy(value) THEN StrV(Head(argv)) ELSE value
             rest == IF ~Truthy(value) THEN Tail(argv) ELSE argv
         IN  Returned(set_optval(c, i, opt.name, val), rest,
                      IF alias # "" THEN StrV(<<>>) ELSE None)

\* KVOption.__call__ refusing a following token that starts with "-"
KVOption_call_refuses_dash(opt, c, i, argv, value, alias) ==
    IF ~Truthy(value) /\ (argv = <<>> \/ startswith(Head(argv), <<"-">>))
    THEN Raised(c, argv,
                OptParseError(<<"Option ">>
                              \o (IF alias # "" THEN <<"-", alias>>
                                  ELSE <<"-", "-">> \o opt.name)
                              \o <<" requires a value">>), <<>>)
    ELSE LET val == IF ~Truthy(value) THEN StrV(Head(argv)) ELSE value
             rest == IF ~Truthy(value) THEN Tail(argv) ELSE argv
         IN  Returned(set_optval(c, i, opt.name, val), rest,
                      IF alias # "" THEN StrV(<<>>) ELSE None)

\* KVOption.__call__
KVOption_call(opt, c, i, argv, value, alias) ==
    IF ~Truthy(value) /\ argv = <<>>
    THEN Raised(c, argv,
                OptParseError(<<"Option ">>
                              \o (IF alias # "" THEN <<"-", alias>>
                                  ELSE <<"-", "-">> \o opt.name)
                              \o <<" requires a value">>), <<>>)
    ELSE LET val == IF ~Truthy(value) THEN StrV(Head(argv)) ELSE value
             rest == IF ~Truthy(value) THEN Tail(argv) ELSE argv
         IN  Returned(set_optval(c, i, opt.name, val), rest,
                      IF alias # "" THEN StrV(<<>>) ELSE None)

\* HelpOption.__call__ printing and then returning as a flag does
ExitOption_call_returns(opt, c, i, argv, value, alias, hook) ==
    LET r == ConstOption_call(opt, c, i, argv, value, alias) IN
    [r EXCEPT !.out = IF r.exc = NoExc THEN <<Event(hook, i, <<>>)>> ELSE <<>>]

\* HelpOption.__call__ and VersionOption.__call__
ExitOption_call(opt, c, i, argv, value, alias, hook) ==
    LET r == ConstOption_call(opt, c, i, argv, value, alias) IN
    IF r.exc # NoExc THEN r
    ELSE Raised(r.cmds, r.argv, AppExitError(EXIT_SUCCESS),
                <<Event(hook, i, <<>>)>>)

\* action(state, value, alias): dynamic dispatch on the option's class
Call(opt, c, i, argv, value, alias) ==
    CASE opt.cls = "PositionalOption" ->
            PositionalOption_call(opt, c, i, argv, value, alias)
      [] opt.cls \in {"ConstOption", "FlagOption"} ->
            ConstOption_call(opt, c, i, argv, value, alias)
      [] opt.cls = "CountOption" ->
            CountOption_call(opt, c, i, argv, value, alias)
      [] opt.cls = "KVOption" ->
            KVOption_call(opt, c, i, argv, value, alias)
      [] opt.cls = "HelpOption" ->
            ExitOption_call(opt, c, i, argv, value, alias, "print_help")
      [] opt.cls = "VersionOption" ->
            ExitOption_call(opt, c, i, argv, value, alias, "print_version")
      [] OTHER -> Raised(c, argv, PythonError("NotImplementedError"), <<>>)

\* OptionSet.dispatch_long_option passing over a name it does not know
dispatch_long_option_skips(self, c, i, argv, name, value) ==
    IF name \notin DOMAIN self.long_opts
    THEN Returned(c, argv, None)
    ELSE Call(self.long_opts[name], c, i, argv, StrV(value), "")

\* OptionSet.dispatch_long_option
dispatch_long_option(self, c, i, argv, name, value) ==
    IF name \notin DOMAIN self.long_opts
    THEN Raised(c, argv, UnknownOptionError(<<"-", "-">> \o name), <<>>)
    ELSE Call(self.long_opts[name], c, i, argv, StrV(value), "")

\* OptionSet.dispatch_short_option passing over an alias it does not know
dispatch_short_option_skips(self, c, i, argv, sname, value) ==
    IF sname \notin DOMAIN self.short_opts
    THEN Returned(c, argv, StrV(value))
    ELSE Call(self.short_opts[sname], c, i, argv, StrV(value), sname)

\* OptionSet.dispatch_short_option
dispatch_short_option(self, c, i, argv, sname, value) ==
    IF sname \notin DOMAIN self.short_opts
    THEN Raised(c, argv, UnknownOptionError(<<"-", sname>>), <<>>)
    ELSE Call(self.short_opts[sname], c, i, argv, StrV(value), sname)

---------------------------------------------------------------------------
(* Applications: the class families the runs are checked on *)

Dashes == <<"-", "-">>

Spec_default(v) == [EmptySpec EXCEPT !.default = v]
Spec_value(v) == [EmptySpec EXCEPT !.value = v]
Spec_keyname(k, req) ==
    [EmptySpec EXCEPT !.keyname = StrV(k), !.required = BoolV(req)]

common_options == <<HelpOption, VersionOption>>

Name_input == <<"i", "n", "p", "u", "t">>
Name_output == <<"o", "u", "t", "p", "u", "t">>
Name_verbose == <<"v", "e", "r", "b", "o", "s", "e">>
Name_yes == <<"y", "e", "s">>
Name_tty == <<"t", "t", "y">>
Name_zlib == <<"z", "l", "i", "b">>
Name_one == <<"o", "n", "e">>
Name_two == <<"t", "w", "o">>
Name_mid == <<"m", "i", "d">>
Name_leaf == <<"l", "e", "a", "f">>
Name_TARGET == <<"T", "A", "R", "G", "E", "T">>
Name_level == <<"l", "e", "v", "e", "l">>
Name_SUB == <<"S", "U", "B">>
Name_force == <<"f", "o", "r", "c", "e">>
Name_mode == <<"m", "o", "d", "e">>
Name_raw == <<"r", "a", "w">>
Name_sub == <<"s", "u", "b">>
Name_keep == <<"k", "e", "e", "p">>
Name_other == <<"o", "t", "h", "e", "r">>
Value_aout == <<"a", ".", "o", "u", "t">>
Opt(c) == <<"o", "p", "t", c>>

Apps == {"Sample", "Scenario", "OptionSetTest", "BuildParserTest", "Switch",
         "PosArgTest", "Deep", "Seed", "KVOptionTest", "Collide",
         "Catch"}

\* the class-level OPTSPEC of class cls of application a, as a sequence of
\* groups of declarations
OPTSPEC(a, cls) ==
    CASE cls = "SampleApplication" ->
            << common_options,
               <<keyval(Name_input, <<"i">>, EmptySpec)>>,
               <<keyval(Name_output, <<"o">>, Spec_default(StrV(Value_aout)))>>,
               <<subcommand(SUBCOMMAND_SLOT, EmptySpec)>> >>
      [] cls = "OneCmd" ->
            << common_options,
               <<flag(Name_tty, <<"t">>, EmptySpec)>>,
               <<flag(Name_yes, <<"y">>, EmptySpec)>> >>
      [] cls = "TwoCmd" ->
            << common_options,
               <<keyval(<<"n", "a", "m", "e">>, <<"n">>, EmptySpec)>>,
               <<flag(<<"q", "u", "i", "e", "t">>, <<"q">>, EmptySpec)>> >>
      [] cls = "Scenario" ->
            << <<counter(Name_verbose, <<"v">>, EmptySpec)>>,
               <<keyval(Name_input, <<"i">>, EmptySpec)>>,
               <<positional(Name_TARGET,
                            [EmptySpec EXCEPT !.required = BoolV(TRUE)])>> >>
      [] cls = "OptionSetTest" ->
            << << ConstOption(Opt("a"), <<"a">>, Spec_value(StrV(<<"a">>))),
                  ConstOption(Opt("b"), <<>>,
                              [Spec_value(StrV(<<"b">>))
                                 EXCEPT !.default = StrV(<<"B">>)]),
                  ConstOption(Opt("c"), <<"c", "x">>,
                              [Spec_value(StrV(<<"c">>))
                                 EXCEPT !.default = StrV(<<"C">>)]) >>,
               build_parser(
                 << << ConstOption(Opt("d"), <<>>, Spec_value(StrV(<<"d">>))),
                       ConstOption(Opt("e"), <<"e">>,
                                   [Spec_value(StrV(<<"e">>))
                                      EXCEPT !.default = StrV(<<"E">>)]) >> >>),
               <<PositionalOption(<<"A", "R", "G">>,
                                  Spec_keyname(<<"a", "r", "g">>, FALSE))>> >>
      [] cls = "BuildParserTest" ->
            << << ConstOption(<<"n", "a", "m", "e">>, <<"n">>,
                              Spec_value(StrV(<<"J">>))),
                  ConstOption(<<"s", "u", "r">>, <<"s">>,
                              Spec_value(StrV(<<"D">>))),
                  PositionalOption(<<"C", "L", "A", "S", "S">>,
                                   Spec_keyname(<<"c", "l", "s">>, FALSE)),
                  PositionalOption(<<"S", "U", "B">>,
                                   Spec_keyname(<<"s", "u", "b">>, FALSE)),
                  ConstOption(<<"h", "o", "s", "t">>, <<"h">>,
                              Spec_value(StrV(<<"l">>))),
                  ConstOption(<<"p", "o", "r", "t">>, <<"p">>,
                              Spec_value(IntV(8765))),
                  PositionalOption(<<"C", "M", "D">>,
                                   Spec_keyname(<<"c", "m", "d">>, FALSE)) >> >>
      [] cls = "Switch" -> << switch(Name_zlib, EmptySpec) >>
      [] cls = "PosArgTest" ->
            << << PositionalOption(<<"F", "O", "O">>,
                                   Spec_keyname(<<"f", "o", "o">>, FALSE)),
                  PositionalOption(<<"B", "A", "R">>,
                                   Spec_keyname(<<"b", "a", "r">>, TRUE)) >> >>
      [] cls = "DeepRoot" ->
            << <<keyval(Name_output, <<"o">>, Spec_default(StrV(Value_aout)))>>,
               <<counter(Name_verbose, <<"v">>, EmptySpec)>>,
               <<subcommand(SUBCOMMAND_SLOT, EmptySpec)>> >>
      [] cls = "DeepMid" ->
            << <<counter(Name_verbose, <<"v">>, EmptySpec)>>,
               <<subcommand(Name_SUB,
                            Spec_keyname(<<"s", "u", "b">>, FALSE))>>,
               <<flag(Name_yes, <<"y">>, EmptySpec)>> >>
      [] cls = "CatchRoot" -> << <<subcommand(SUBCOMMAND_SLOT, EmptySpec)>> >>
      [] cls = "CatchSub" -> << <<Option("Option", Name_raw, <<>>, EmptySpec)>> >>
      [] cls = "Collide" ->
            << << ConstOption(Name_mode, <<"m">>, Spec_value(StrV(<<"1">>))),
                  ConstOption(Name_keep, <<"k">>, Spec_value(StrV(<<"k">>))),
                  ConstOption(Name_mode, <<"x">>, Spec_value(StrV(<<"2">>))) >>,
               build_parser(
                 << << ConstOption(Name_other, <<"k">>,
                                   Spec_value(StrV(<<"o">>))),
                       ConstOption(Name_mode, <<>>,
                                   Spec_value(StrV(<<"3">>))) >> >>),
               <<ConstOption(Name_other, <<"x">>, Spec_value(StrV(<<"4">>)))>> >>
      [] cls = "KVOptionTest" ->
            << <<flag(Name_force, <<"f">>, EmptySpec)>>,
               <<keyval(Name_input, <<"i">>, EmptySpec)>> >>
      [] cls = "Seed" ->
            << <<ConstOption(Opt("a"), <<"a">>,
                             [Spec_value(StrV(<<"a">>))
                                EXCEPT !.default = StrV(<<"A">>)])>>,
               <<counter(Name_level, <<"l">>, Spec_default(IntV(2)))>>,
               <<PositionalOption(<<"A", "R", "G">>,
                                  Spec_keyname(<<"a", "r", "g">>, FALSE))>>,
               <<ConstOption(Opt("a"), <<>>,
                             [Spec_value(StrV(<<"z">>))
                                EXCEPT !.default = StrV(<<"Z">>)])>> >>
      [] OTHER -> <<>>

\* the root class of application a
RootClass(a) ==
    CASE a = "Sample" -> "SampleApplication"
      [] a = "Deep" -> "DeepRoot"
      [] a = "Catch" -> "CatchRoot"
      [] OTHER -> a

\* load_subcommand of class cls: the class of the sub-command called name,
\* or "" where the lookup falls through to CommandMixin.load_subcommand
load_subcommand(a, cls, name) ==
    CASE cls = "SampleApplication" /\ name = StrV(Name_one) -> "OneCmd"
      [] cls = "SampleApplication" /\ name = StrV(Name_two) -> "TwoCmd"
      [] cls = "DeepRoot" /\ name = StrV(Name_mid) -> "DeepMid"
      [] cls = "DeepMid" /\ name = StrV(Name_leaf) -> "DeepLeaf"
      [] cls = "CatchRoot" /\ name = StrV(Name_sub) -> "CatchSub"
      [] OTHER -> ""

\* the tokens the token vectors of application a are drawn from
Tokens(a) ==
    CASE a = "Sample" ->
            { Dashes, Name_one, Name_two, <<"t", "h", "r", "e", "e">>,
              <<"-", "t", "y">>, <<"-", "o", "x">>, Dashes \o Name_help,
              Dashes \o <<"f", "o", "o">>, Dashes \o Name_output,
              Dashes \o Name_tty \o <<"=", "x">>, <<"-", "h", "z">>,
              Dashes \o Name_version }
      [] a = "Scenario" ->
            { <<"-", "v", "v">>, <<"-", "i", "A">>, <<"b", "u", "i", "l", "d">>,
              Dashes \o Name_verbose, Dashes \o Name_input, <<"-", "v", "i">>,
              Dashes \o Name_verbose \o <<"=", "3">>, <<"-">>,
              Dashes \o Name_input \o <<"=", "b", "=", "c">> }
      [] a = "OptionSetTest" ->
            { Dashes, <<"f", "o", "o">>, <<"-", "b", "a", "r">>,
              Dashes \o Opt("b"), <<"-", "c", "x", "e">>, Dashes \o Opt("d"),
              <<"-", "a", "x", "z", "c">>, Dashes \o Opt("b") \o <<"=", "1">>,
              <<"-", "a", "z", "e">> }
      [] a = "BuildParserTest" ->
            { <<"-", "s">>, <<"-", "n">>, <<"A">>, <<"B">>, <<"-", "p", "h">>,
              Dashes, Dashes \o <<"h", "o", "s", "t">> }
      [] a = "Switch" ->
            { Dashes \o Name_zlib, Dashes \o <<"n", "o", "-">> \o Name_zlib,
              Dashes \o Name_zlib \o <<"=", "1">>, <<"x">>, Dashes, <<>> }
      [] a = "PosArgTest" ->
            { <<"c", "m", "d">>, <<"s", "u", "b">>, Dashes \o <<"c", "m", "d">>,
              <<"-">> }
      [] a = "Deep" ->
            { Name_mid, Name_leaf, <<"-", "v">>, <<"-", "o", "x">>, Dashes,
              <<"n", "o", "p", "e">>, <<"-", "y">> }
      [] a = "Catch" -> { Name_sub, <<"x">>, Dashes \o Name_raw }
      [] a = "Collide" ->
            { Dashes \o Name_mode, Dashes \o Name_other, Dashes \o Name_keep,
              <<"-", "m">>, <<"-", "k">>, <<"-", "x">> }
      [] a = "KVOptionTest" ->
            { Dashes \o Name_input \o <<"=">>, <<"-", "i">>, <<"-", "f", "i">>,
              <<"x">>, Dashes \o Name_input }
      [] a = "Seed" ->
            { Dashes \o Opt("a"), <<"-", "a">>, <<"x">>, <<"-", "l", "a">> }

\* the token vectors of at most MaxArgs tokens
Argvs(a) == UNION {[1..n -> Tokens(a)] : n \in 0..MaxArgs}

---------------------------------------------------------------------------
(* The run of a command *)

NoState == [cmd |-> 0, argv |-> <<>>, own |-> TRUE, pchain |-> 0, parser |-> 0]

Init ==
    /\ app \in Apps
    /\ argv0 \in Argvs(app)
    /\ given = argv0
    /\ cmds = <<Command(RootClass(app), 0)>>
    /\ cur = 1
    /\ chain = <<>>
    /\ state = NoState
    /\ node = 0
    /\ shorts = <<>>
    /\ pc = "run"
    /\ exc = NoExc
    /\ retcode = None
    /\ log = <<>>

\* State.__init__ keeping the caller's list itself: self.argv = argv
State_sharing(cmd, argv) ==
    [cmd |-> cmd, argv |-> argv, own |-> FALSE, pchain |-> 0, parser |-> 0]

\* State.__init__: self.argv = argv[:], a list of the state's own
State(cmd, argv) ==
    [cmd |-> cmd, argv |-> argv, own |-> TRUE, pchain |-> 0, parser |-> 0]

\* the caller's list after a step: what the state's list has become when
\* the two are one object, untouched when the state works on its own list
Caller == IF state.own THEN given ELSE state'.argv

\* run.wrapper going to parse_args without calling initialize
Run_without_initialize ==
    /\ pc = "run"
    /\ log' = log
    /\ state' = State(cur, given)
    /\ chain' = build_parser(OPTSPEC(app, cmds[cur].cls))
    /\ node' = 1
    /\ pc' = "update"
    /\ UNCHANGED <<app, argv0, given, cmds, cur, shorts, exc, retcode>>

\* run.wrapper up to the call of parse on the chain head:
\* initialize(), State(self, argv), build_parser(*OPTSPEC)
Run ==
    /\ pc = "run"
    /\ log' = Append(log, Event("initialize", cur, <<>>))
    /\ state' = State(cur, given)
    /\ chain' = build_parser(OPTSPEC(app, cmds[cur].cls))
    /\ node' = 1
    /\ pc' = "update"
    /\ UNCHANGED <<app, argv0, given, cmds, cur, shorts, exc, retcode>>

\* State.update seeding the defaults from every node it is called with
State_update_every_node(st, c, lg, nd) ==
    [state |-> [st EXCEPT !.pchain = IF st.pchain = 0 THEN nd ELSE st.pchain,
                          !.parser = nd],
     cmds |-> set_opts_defaults(c, st.cmd, chain, nd),
     log |-> Append(lg, Event("set_opts_defaults", st.cmd, <<>>))]

\* State.update(parser), parser being node nd of the chain
State_update(st, c, lg, nd) ==
    IF st.pchain = 0
    THEN [state |-> [st EXCEPT !.pchain = nd, !.parser = nd],
          cmds |-> set_opts_defaults(c, st.cmd, chain, nd),
          log |-> Append(lg, Event("set_opts_defaults", st.cmd, <<>>))]
    ELSE [state |-> [st EXCEPT !.parser = nd], cmds |-> c, log |-> lg]

\* the first statement of every parse(): state.update(self)
Update ==
    /\ pc = "update"
    /\ LET u == State_update(state, cmds, log, node) IN
        /\ state' = u.state
        /\ cmds' = u.cmds
        /\ log' = u.log
    /\ pc' = "parse"
    /\ UNCHANGED <<app, argv0, given, cur, chain, node, shorts, exc, retcode>>

\* a node whose next is the node itself
Continue_same_node == node' = node /\ pc' = "update"

\* if self.next: self.next.parse(state); else parse_args returns
Continue ==
    IF node < Len(chain)
    THEN node' = node + 1 /\ pc' = "update"
    ELSE node' = node /\ pc' = "subcommand"

\* what a call leaves behind, and where control goes after it
Apply(r, ok) ==
    /\ cmds' = r.cmds
    /\ state' = [state EXCEPT !.argv = r.argv]
    /\ log' = log \o r.out
    /\ exc' = r.exc
    /\ IF r.exc # NoExc THEN node' = node /\ pc' = "raised" ELSE ok

\* OptionParser.parse
OptionParser_parse ==
    /\ pc = "parse"
    /\ chain[node].cls = "OptionParser"
    /\ Continue
    /\ UNCHANGED <<app, argv0, given, cmds, cur, chain, state, shorts, exc,
                   retcode, log>>

\* PosArg.parse requiring its option only on an empty vector
PosArg_body_empty_only(self, c, i, argv) ==
    IF argv # <<>> /\ ~startswith(Head(argv), <<"-">>)
    THEN Call(self.action, c, i, Tail(argv), StrV(Head(argv)), "")
    ELSE IF required(self.action) /\ argv = <<>>
    THEN Raised(c, argv,
                OptParseError(<<"Positional option '">> \o self.action.name
                              \o <<"' is required">>), <<>>)
    ELSE Returned(c, argv, None)

\* PosArg.parse taking the front token whatever it starts with
PosArg_body_any_front(self, c, i, argv) ==
    IF argv # <<>>
    THEN Call(self.action, c, i, Tail(argv), StrV(Head(argv)), "")
    ELSE IF required(self.action)
    THEN Raised(c, argv,
                OptParseError(<<"Positional option '">> \o self.action.name
                              \o <<"' is required">>), <<>>)
    ELSE Returned(c, argv, None)

\* the body of PosArg.parse
PosArg_body(self, c, i, argv) ==
    IF argv # <<>> /\ ~startswith(Head(argv), <<"-">>)
    THEN Call(self.action, c, i, Tail(argv), StrV(Head(argv)), "")
    ELSE IF required(self.action)
    THEN Raised(c, argv,
                OptParseError(<<"Positional option '">> \o self.action.name
                              \o <<"' is required">>), <<>>)
    ELSE Returned(c, argv, None)

\* PosArg.parse
PosArg_parse ==
    /\ pc = "parse"
    /\ chain[node].cls = "PosArg"
    /\ Apply(PosArg_body(chain[node], cmds, cur, state.argv), Continue)
    /\ given' = Caller
    /\ UNCHANGED <<app, argv0, cur, chain, shorts, retcode>>

\* OptionSet.parse: the token loop ends on an empty vector
OptionSet_exhausted ==
    /\ pc = "parse"
    /\ chain[node].cls = "OptionSet"
    /\ state.argv = <<>>
    /\ Continue
    /\ UNCHANGED <<app, argv0, given, cmds, cur, chain, state, shorts, exc,
                   retcode, log>>

\* OptionSet.parse: arg == "--"
OptionSet_terminator ==
    /\ pc = "parse"
    /\ chain[node].cls = "OptionSet"
    /\ state.argv # <<>>
    /\ Head(state.argv) = Dashes
    /\ state' = [state EXCEPT !.argv = Tail(state.argv)]
    /\ log' = Append(log, Event("terminator", cur, Tail(state.argv)))
    /\ Continue
    /\ given' = Caller
    /\ UNCHANGED <<app, argv0, cmds, cur, chain, shorts, exc, retcode>>

\* the long branch of the token loop, arg already popped
OptionSet_long_body(self, c, i, argv, arg) ==
    LET nameval == split_eq(SubSeq(arg, 3, Len(arg))) IN
    dispatch_long_option(self, c, i, argv, nameval.name,
                         IF nameval.has THEN nameval.value ELSE <<>>)

\* OptionSet.parse: arg.startswith("--")
OptionSet_long ==
    /\ pc = "parse"
    /\ chain[node].cls = "OptionSet"
    /\ state.argv # <<>>
    /\ Head(state.argv) # Dashes
    /\ startswith(Head(state.argv), Dashes)
    /\ Apply(OptionSet_long_body(chain[node], cmds, cur, Tail(state.argv),
                                 Head(state.argv)),
             node' = node /\ pc' = "parse")
    /\ given' = Caller
    /\ UNCHANGED <<app, argv0, cur, chain, shorts, retcode>>

\* OptionSet.parse: arg.startswith("-"), the cluster is arg[1:]
OptionSet_short ==
    /\ pc = "parse"
    /\ chain[node].cls = "OptionSet"
    /\ state.argv # <<>>
    /\ ~startswith(Head(state.argv), Dashes)
    /\ startswith(Head(state.argv), <<"-">>)
    /\ state' = [state EXCEPT !.argv = Tail(state.argv)]
    /\ shorts' = Tail(Head(state.argv))
    /\ pc' = "shorts"
    /\ given' = Caller
    /\ UNCHANGED <<app, argv0, cmds, cur, chain, node, exc, retcode, log>>

\* while shorts: shorts = self.dispatch_short_option(state, shorts[0], shorts[1:])
Shorts_dispatch ==
    /\ pc = "shorts"
    /\ shorts # <<>>
    /\ LET r == dispatch_short_option(chain[node], cmds, cur, state.argv,
                                      Head(shorts), Tail(shorts)) IN
        /\ Apply(r, node' = node /\ pc' = "shorts")
        /\ shorts' = IF r.ret.t = "str" THEN r.ret.v ELSE <<>>
    /\ given' = Caller
    /\ UNCHANGED <<app, argv0, cur, chain, retcode>>

\* the cluster is exhausted: back to the token loop
Shorts_done ==
    /\ pc = "shorts"
    /\ shorts = <<>>
    /\ pc' = "parse"
    /\ UNCHANGED <<app, argv0, given, cmds, cur, chain, state, node, shorts,
                   exc, retcode, log>>

\* OptionSet.parse ending the loop on a bare token without putting it back
OptionSet_bare_drops ==
    /\ pc = "parse"
    /\ chain[node].cls = "OptionSet"
    /\ state.argv # <<>>
    /\ ~startswith(Head(state.argv), <<"-">>)
    /\ state' = [state EXCEPT !.argv = Tail(state.argv)]
    /\ Continue
    /\ UNCHANGED <<app, argv0, given, cmds, cur, chain, shorts, exc,
                   retcode, log>>

\* OptionSet.parse: a bare token is put back and the loop ends
OptionSet_bare ==
    /\ pc = "parse"
    /\ chain[node].cls = "OptionSet"
    /\ state.argv # <<>>
    /\ ~startswith(Head(state.argv), <<"-">>)
    /\ Continue
    /\ UNCHANGED <<app, argv0, given, cmds, cur, chain, state, shorts, exc,
                   retcode, log>>

\* get_subcommand reading the slot through get_optval, ancestors included
subcommand_name_inherited(c, i) == get_optval(c, i, SUBCOMMAND_SLOT, None)

\* the name get_subcommand reads from the store of command i
subcommand_name(c, i) ==
    IF SUBCOMMAND_SLOT \in DOMAIN c[i].opts
    THEN c[i].opts[SUBCOMMAND_SLOT] ELSE None

\* ApplicationMixin.exit
exit(ecode) == AppExitError(ecode)

\* main of class cls called with argv: the value it returns or the
\* exception it raises.  ApplicationMixin.main returns EXIT_SUCCESS, the
\* main of TwoCmd has no return statement, and the main of the third-level
\* command returns its own code or leaves through exit()
main(cls, argv) ==
    CASE cls = "TwoCmd" -> [ret |-> None, exc |-> NoExc]
      [] cls = "DeepLeaf" ->
            IF argv = <<>>
            THEN [ret |-> IntV(3), exc |-> NoExc]
            ELSE [ret |-> None, exc |-> exit(Len(argv) + 1)]
      [] cls = "CatchSub" ->
            [ret |-> None,
             exc |-> IF argv = <<>> THEN PythonError("KeyError")
                     ELSE PythonError("ValueError")]
      [] OTHER -> [ret |-> IntV(EXIT_SUCCESS), exc |-> NoExc]

\* run.wrapper calling the main of the root command
Main_of_root ==
    /\ pc = "subcommand"
    /\ ~Truthy(subcommand_name(cmds, cur))
    /\ log' = Append(log, Event("main", 1, state.argv))
    /\ LET r == main(cmds[1].cls, state.argv) IN
        /\ exc' = r.exc
        /\ IF r.exc = NoExc
           THEN retcode' = r.ret /\ pc' = "done"
           ELSE retcode' = retcode /\ pc' = "raised"
    /\ UNCHANGED <<app, argv0, given, cmds, cur, chain, state, node, shorts>>

\* run.wrapper: no sub-command is selected, return self.main(state.argv)
Main ==
    /\ pc = "subcommand"
    /\ ~Truthy(subcommand_name(cmds, cur))
    /\ log' = Append(log, Event("main", cur, state.argv))
    /\ LET r == main(cmds[cur].cls, state.argv) IN
        /\ exc' = r.exc
        /\ IF r.exc = NoExc
           THEN retcode' = r.ret /\ pc' = "done"
           ELSE retcode' = retcode /\ pc' = "raised"
    /\ UNCHANGED <<app, argv0, given, cmds, cur, chain, state, node, shorts>>

\* get_subcommand: load_subcommand(name), then run.wrapper calls
\* subcommand.run(state.argv)
Get_subcommand ==
    /\ pc = "subcommand"
    /\ Truthy(subcommand_name(cmds, cur))
    /\ LET name == subcommand_name(cmds, cur)
           cls == load_subcommand(app, cmds[cur].cls, name)
       IN  IF cls = ""
           THEN /\ exc' = UnknownCommandError(name.v)
                /\ pc' = "raised"
                /\ UNCHANGED <<cmds, cur, given>>
           ELSE /\ cmds' = Append(cmds, Command(cls, cur))
                /\ cur' = Len(cmds) + 1
                /\ given' = state.argv
                /\ pc' = "run"
                /\ UNCHANGED exc
    /\ UNCHANGED <<app, argv0, chain, state, node, shorts, retcode, log>>

\* command i and its ancestors, by the parent references
RECURSIVE Lineage(_)
Lineage(i) == IF i = 0 THEN {} ELSE {i} \cup Lineage(cmds[i].parent)

\* the commands whose epcall the exception of the running command passes
\* through and whose except clauses match it
Handlers ==
    {j \in Lineage(cur) : exc.kind = "AppExitError" \/ Caught(cmds[j].cls, exc)}

\* epcall with a clause that catches every exception
Epcall_catches_all ==
    /\ pc = "raised"
    /\ IF exc.kind = "AppExitError"
       THEN /\ retcode' = IntV(exc.ecode)
            /\ log' = Append(log, Event("on_exit", cur, <<>>))
       ELSE /\ retcode' = IntV(EXIT_FAILURE)
            /\ log' = Append(log, Event("on_error", cur, <<>>))
    /\ pc' = "done"
    /\ UNCHANGED <<app, argv0, given, cmds, cur, chain, state, node, shorts,
                   exc>>

\* epcall with the exit signal as its only except clause
Epcall_exit_only ==
    /\ pc = "raised"
    /\ IF exc.kind = "AppExitError"
       THEN /\ retcode' = IntV(exc.ecode)
            /\ log' = Append(log, Event("on_exit", cur, <<>>))
       ELSE UNCHANGED <<retcode, log>>
    /\ pc' = "done"
    /\ UNCHANGED <<app, argv0, given, cmds, cur, chain, state, node, shorts,
                   exc>>

\* epcall trying the registered application errors before the exit signal
Epcall_error_first ==
    /\ pc = "raised"
    /\ IF IsApplicationError(exc)
       THEN /\ retcode' = IntV(EXIT_FAILURE)
            /\ log' = Append(log, Event("on_error", cur, <<>>))
       ELSE UNCHANGED <<retcode, log>>
    /\ pc' = "done"
    /\ UNCHANGED <<app, argv0, given, cmds, cur, chain, state, node, shorts,
                   exc>>

\* ApplicationMixin.epcall: the except clauses
Epcall ==
    /\ pc = "raised"
    /\ IF Handlers = {}
       THEN UNCHANGED <<retcode, log>>
       ELSE LET j == CHOOSE h \in Handlers : \A k \in Handlers : k <= h IN
            IF exc.kind = "AppExitError"
            THEN /\ retcode' = IntV(exc.ecode)
                 /\ log' = Append(log, Event("on_exit", j, <<>>))
            ELSE /\ retcode' = IntV(EXIT_FAILURE)
                 /\ log' = Append(log, Event("on_error", j, <<>>))
    /\ pc' = "done"
    /\ UNCHANGED <<app, argv0, given, cmds, cur, chain, state, node, shorts,
                   exc>>

Next ==
    \/ Run
    \/ Update
    \/ OptionParser_parse
    \/ PosArg_parse
    \/ OptionSet_exhausted
    \/ OptionSet_terminator
    \/ OptionSet_long
    \/ OptionSet_short
    \/ Shorts_dispatch
    \/ Shorts_done
    \/ OptionSet_bare
    \/ Main
    \/ Get_subcommand
    \/ Epcall

Spec == Init /\ [][Next]_vars

---------------------------------------------------------------------------
(* Helpers of the properties *)

\* the store of command i
opts(i) == cmds[i].opts

\* the options a class declares: the flattened declarations, a nested
\* option set standing for the options of its long table
Declared(a, cls) ==
    LET items == flatten(OPTSPEC(a, cls)) IN
    UNION { IF items[k].cls = "OptionSet"
            THEN {items[k].long_opts[n] : n \in DOMAIN items[k].long_opts}
            ELSE {items[k]} : k \in 1..Len(items) }

\* the events of the log that are calls of hook ev
Events(ev) == {k \in 1..Len(log) : log[k].ev = ev}

---------------------------------------------------------------------------
(* C1: once an option-set node of the chain has consumed the terminator    *)
(* "--", no later node of that chain consumes a token: the working vector  *)
(* of that parse stays what it was right after the terminator was dropped. *)
C1_TerminatorStopsChain ==
    \A k \in Events("terminator") :
        log[k].cmd = state.cmd => state.argv = log[k].arg

---------------------------------------------------------------------------
(* C2: for a spec with no required positional, parsing the empty vector    *)
(* leaves a store whose keys are exactly the storage keys (keyname) of the *)
(* declared options, each holding the declared default of its option.      *)
C2_EmptyParseStoresDefaultsByKeyname ==
    LET decl == Declared(app, cmds[1].cls) IN
    ( /\ argv0 = <<>>
      /\ pc = "done"
      /\ \A o \in decl : ~(IsPositional(o) /\ required(o)) )
    => /\ DOMAIN opts(1) = {o.keyname : o \in decl}
       /\ \A o \in decl : opts(1)[o.keyname] = get_default(o)
       /\ exc = NoExc

---------------------------------------------------------------------------
(* Helpers on the step an option-set node or a positional slot takes *)

\* the node whose parse() is executing consumes tokens as an option set
InOptionSet == pc = "parse" /\ chain[node].cls = "OptionSet"

\* the front token is "--" n (has = FALSE) or "--" n "=" v with v non-empty
LongForm(n, has) ==
    /\ InOptionSet
    /\ state.argv # <<>>
    /\ IF has
       THEN /\ startswith(Head(state.argv), Dashes \o n \o <<"=">>)
            /\ Len(Head(state.argv)) > Len(n) + 3
       ELSE Head(state.argv) = Dashes \o n

\* the text after "--" n "="
LongValue(n) == SubSeq(Head(state.argv), Len(n) + 4, Len(Head(state.argv)))

\* the long names of the consuming node that belong to options of class cls
LongNames(clss) ==
    {n \in DOMAIN chain[node].long_opts : chain[node].long_opts[n].cls \in clss}

NotKV == {"ConstOption", "FlagOption", "CountOption"}

MissingValue(form) ==
    OptParseError(<<"Option ">> \o form \o <<" requires a value">>)

NotKeyValue(n) ==
    OptParseError(<<"Option --">> \o n \o <<" is not a key-value option">>)

---------------------------------------------------------------------------
(* C3: for a key-value option n, "--n=value" with a non-empty value stores *)
(* exactly value and consumes no further token; "--n" takes the following  *)
(* token as the value when there is one and fails with the missing-value   *)
(* ParseError when the vector is empty at that point.                      *)
C3_KeyValueLongForms ==
    [][ \A n \in (IF InOptionSet THEN LongNames({"KVOption"}) ELSE {}) :
          /\ LongForm(n, TRUE) =>
                /\ opts(cur)'[n] = StrV(LongValue(n))
                /\ state'.argv = Tail(state.argv)
                /\ pc' = "parse"
          /\ (LongForm(n, FALSE) /\ Tail(state.argv) # <<>>) =>
                /\ opts(cur)'[n] = StrV(Head(Tail(state.argv)))
                /\ state'.argv = Tail(Tail(state.argv))
                /\ pc' = "parse"
          /\ (LongForm(n, FALSE) /\ Tail(state.argv) = <<>>) =>
                /\ exc' = MissingValue(Dashes \o n)
                /\ pc' = "raised"
                /\ cmds' = cmds
      ]_vars

\* "--input=b=c" stored b=c and took nothing else; "--input" then took the
\* token that followed it
C3_Witness ==
    /\ app = "Scenario"
    /\ argv0 = << Dashes \o Name_input \o <<"=", "b", "=", "c">>,
                  Dashes \o Name_input, <<"-", "v", "v">> >>
    /\ pc = "parse"
    /\ state.argv = <<>>
    /\ opts(1)[Name_input] = StrV(<<"-", "v", "v">>)

---------------------------------------------------------------------------
(* C4: the aliases of a short cluster are dispatched left to right: a      *)
(* key-value alias takes the whole non-empty rest of the cluster as its    *)
(* value and ends the cluster; a constant, flag or counter alias applies   *)
(* its action and dispatch goes on with the next character.                *)
C4_ShortCluster ==
    [][ ( /\ pc = "shorts"
          /\ shorts # <<>>
          /\ Head(shorts) \in DOMAIN chain[node].short_opts )
        => LET o == chain[node].short_opts[Head(shorts)] IN
           /\ (o.cls = "KVOption" /\ Tail(shorts) # <<>>) =>
                /\ opts(cur)'[o.name] = StrV(Tail(shorts))
                /\ shorts' = <<>>
                /\ state' = state
                /\ pc' = "shorts"
           /\ (o.cls \in {"ConstOption", "FlagOption"}) =>
                /\ opts(cur)'[o.keyname] = spec_get(o.spec, "value", BoolV(TRUE))
                /\ shorts' = Tail(shorts)
                /\ pc' = "shorts"
           /\ (o.cls = "CountOption") =>
                /\ opts(cur)'[o.name].v = opts(cur)[o.name].v + 1
                /\ shorts' = Tail(shorts)
                /\ pc' = "shorts"
      ]_vars

\* "-cxe": c, x and e were dispatched in turn, all three actions applied
C4_Witness ==
    /\ app = "OptionSetTest"
    /\ argv0 = << <<"-", "c", "x", "e">> >>
    /\ pc = "shorts"
    /\ shorts = <<>>
    /\ opts(1)[Opt("c")] = StrV(<<"c">>)
    /\ opts(1)[Opt("e")] = StrV(<<"e">>)

---------------------------------------------------------------------------
(* C5: "--n=value" with a non-empty value against a constant, flag or      *)
(* counter option fails with the ParseError "Option --n is not a key-value *)
(* option" and writes nothing; the same options invoked as "--n" or by an  *)
(* alias do not fail.                                                      *)
C5_NotKeyValue ==
    [][ /\ \A n \in (IF InOptionSet THEN LongNames(NotKV) ELSE {}) :
            /\ LongForm(n, TRUE) =>
                  /\ exc' = NotKeyValue(n)
                  /\ pc' = "raised"
                  /\ cmds' = cmds
            /\ LongForm(n, FALSE) => (exc' = NoExc /\ pc' = "parse")
        /\ ( /\ pc = "shorts"
             /\ shorts # <<>>
             /\ Head(shorts) \in DOMAIN chain[node].short_opts
             /\ chain[node].short_opts[Head(shorts)].cls \in NotKV )
           => (exc' = NoExc /\ pc' = "shorts")
      ]_vars

\* "--verbose=3" raised the error and left the seeded default in the store
C5_Witness ==
    /\ app = "Scenario"
    /\ argv0 = << Dashes \o Name_verbose \o <<"=", "3">> >>
    /\ pc = "raised"
    /\ exc = NotKeyValue(Name_verbose)
    /\ opts(1)[Name_verbose] = IntV(0)

---------------------------------------------------------------------------
(* C6: a positional slot whose option is required, reached with an empty   *)
(* vector or a front token starting with "-", raises the ParseError naming *)
(* the option; the stores keep what the earlier nodes wrote, and no later  *)
(* node runs.                                                              *)
C6_RequiredPositional ==
    [][ /\ ( /\ pc = "parse"
             /\ chain[node].cls = "PosArg"
             /\ required(chain[node].action)
             /\ \/ state.argv = <<>>
                \/ startswith(Head(state.argv), <<"-">>) )
           => /\ exc' = OptParseError(<<"Positional option '">>
                                      \o chain[node].action.name
                                      \o <<"' is required">>)
              /\ pc' = "raised"
              /\ cmds' = cmds
              /\ state' = state
        /\ pc = "raised"
           => (pc' = "done" /\ node' = node /\ cmds' = cmds /\ state' = state)
      ]_vars

\* FOO took "cmd", then BAR found "-" in front and raised
C6_Witness ==
    /\ app = "PosArgTest"
    /\ argv0 = << <<"c", "m", "d">>, <<"-">> >>
    /\ pc = "done"
    /\ node = 2
    /\ exc = OptParseError(<<"Positional option '">> \o <<"B", "A", "R">>
                           \o <<"' is required">>)
    /\ opts(1)[<<"f", "o", "o">>] = StrV(<<"c", "m", "d">>)
    /\ state.argv = << <<"-">> >>

---------------------------------------------------------------------------
(* Helpers on the command tree *)

\* the members of the lineage of i whose store holds key
Holders(i, key) == {j \in Lineage(i) : key \in DOMAIN opts(j)}

\* the holder nearest to i: every other holder is one of its ancestors
Nearest(i, key) ==
    CHOOSE j \in Holders(i, key) : Holders(i, key) \subseteq Lineage(j)

\* the keys some store holds, and one that none holds
ProbeKeys == UNION {DOMAIN opts(i) : i \in 1..Len(cmds)} \cup {<<"?">>}

\* the slot of the running command holds a name its lookup does not resolve
Unresolved ==
    /\ Truthy(subcommand_name(cmds, cur))
    /\ load_subcommand(app, cmds[cur].cls, subcommand_name(cmds, cur)) = ""

---------------------------------------------------------------------------
---------------------------------------------------------------------------
(* C8: get_optval(key, default) of any command is the value its own store  *)
(* holds under key when the key is present there (whatever the value, None *)
(* included), else the value in the store of the nearest ancestor holding  *)
(* the key, else the default.                                              *)
C8_GetOptval ==
    \A i \in 1..Len(cmds) : \A key \in ProbeKeys : \A d \in {None, IntV(7)} :
        get_optval(cmds, i, key, d) =
            IF Holders(i, key) = {} THEN d
            ELSE opts(Nearest(i, key))[key]

\* a third-level command reads output from the root, two levels up, and
\* the None stored under its own parent's SUB key rather than the default
C8_Witness ==
    /\ app = "Deep"
    /\ Len(cmds) = 3
    /\ Name_output \notin DOMAIN opts(3) \cup DOMAIN opts(2)
    /\ get_optval(cmds, 3, Name_output, None) = StrV(<<"x">>)
    /\ get_optval(cmds, 3, <<"S", "U", "B">>, IntV(7)) = None
    /\ get_optval(cmds, 3, <<"?">>, IntV(7)) = IntV(7)

---------------------------------------------------------------------------
(* C9: in the two-level Sample tree, once the root has dispatched to the   *)
(* child and the child has seeded its store, the child's get_optval of a   *)
(* key only the parent declares is the parent's value (the parsed one when *)
(* the option was given, else its default a.out), and a key both declare   *)
(* resolves to the child's own value.                                      *)
C9_ChildReadsParent ==
    (app = "Sample" /\ state.cmd = 2 /\ state.pchain # 0)
    => /\ \A k \in DOMAIN opts(1) \ DOMAIN opts(2) :
            get_optval(cmds, 2, k, IntV(7)) = opts(1)[k]
       /\ \A k \in DOMAIN opts(2) :
            get_optval(cmds, 2, k, IntV(7)) = opts(2)[k]
       /\ {Name_input, Name_output} \subseteq DOMAIN opts(1) \ DOMAIN opts(2)
       /\ Name_help \in DOMAIN opts(1) \cap DOMAIN opts(2)
       /\ argv0[1] \in {Name_one, Name_two}
          => get_optval(cmds, 2, Name_output, None) = StrV(Value_aout)
       /\ (argv0[1] = <<"-", "o", "x">> /\ argv0[2] \in {Name_one, Name_two})
          => get_optval(cmds, 2, Name_output, None) = StrV(<<"x">>)
       /\ (argv0[1] = Dashes \o Name_output /\ argv0[3] \in {Name_one, Name_two})
          => get_optval(cmds, 2, Name_output, None) = StrV(argv0[2])

\* "-ox one --help": the child reads x from the root and its own help
C9_Witness ==
    /\ app = "Sample"
    /\ argv0 = << <<"-", "o", "x">>, Name_one, Dashes \o Name_help >>
    /\ pc = "done"
    /\ cur = 2
    /\ get_optval(cmds, 2, Name_output, None) = StrV(<<"x">>)
    /\ opts(1)[Name_help] = BoolV(FALSE)
    /\ get_optval(cmds, 2, Name_help, None) = BoolV(TRUE)

---------------------------------------------------------------------------
(* C10: no step of the run of a command changes the store of any of its    *)
(* ancestors.                                                              *)
C10_AncestorsUnchanged ==
    [][ \A i \in 1..Len(cmds) : i < cur' => cmds'[i] = cmds[i] ]_vars

\* the counter of the second-level command counted, the root's did not
C10_Witness ==
    /\ app = "Deep"
    /\ cur = 2
    /\ {Name_verbose, SUBCOMMAND_SLOT} \subseteq DOMAIN opts(2)
    /\ opts(2)[Name_verbose] = IntV(1)
    /\ opts(1)[Name_verbose] = IntV(0)
    /\ opts(2)[SUBCOMMAND_SLOT] = StrV(<<"n", "o", "p", "e">>)
    /\ opts(1)[SUBCOMMAND_SLOT] = StrV(Name_mid)

---------------------------------------------------------------------------
---------------------------------------------------------------------------
(* Helpers: the option the next dispatch step of the parse will call *)

\* the Help and Version classes, and the hook each of them calls
ExitClasses == {"HelpOption", "VersionOption"}

HookOf(cls) == IF cls = "HelpOption" THEN "print_help" ELSE "print_version"

\* the next step dispatches a long token carrying no value
LongPlain ==
    /\ InOptionSet
    /\ state.argv # <<>>
    /\ Head(state.argv) # Dashes
    /\ startswith(Head(state.argv), Dashes)
    /\ split_eq(SubSeq(Head(state.argv), 3, Len(Head(state.argv)))).value = <<>>

\* the long name of that token
LongName == split_eq(SubSeq(Head(state.argv), 3, Len(Head(state.argv)))).name

\* the next step calls the option of class in clss by its long name
LongMatch(clss) ==
    /\ LongPlain
    /\ LongName \in DOMAIN chain[node].long_opts
    /\ chain[node].long_opts[LongName].cls \in clss

\* the next step calls the option of class in clss by a short alias
ShortMatch(clss) ==
    /\ pc = "shorts"
    /\ shorts # <<>>
    /\ Head(shorts) \in DOMAIN chain[node].short_opts
    /\ chain[node].short_opts[Head(shorts)].cls \in clss

\* the option that step calls
Matched ==
    IF pc = "shorts" THEN chain[node].short_opts[Head(shorts)]
    ELSE chain[node].long_opts[LongName]

---------------------------------------------------------------------------
(* C12: when the parse of a command at any level calls a Help or Version   *)
(* option (by its long name without a value, or by its short alias),       *)
(* print_help / print_version of that command is called once and the Exit  *)
(* signal with the success code is raised; from then on no token and no    *)
(* further character of the cluster is consumed, no main is invoked, and   *)
(* the root's run returns the success code.                                *)
C12_HelpVersionExit ==
    [][ /\ (LongMatch(ExitClasses) \/ ShortMatch(ExitClasses))
           => /\ log' = Append(log, Event(HookOf(Matched.cls), cur, <<>>))
              /\ exc' = AppExitError(EXIT_SUCCESS)
              /\ pc' = "raised"
              /\ state'.argv = IF pc = "shorts" THEN state.argv
                               ELSE Tail(state.argv)
        /\ (pc = "raised" /\ exc.kind = "AppExitError")
           => /\ state' = state /\ cmds' = cmds /\ shorts' = shorts
              /\ retcode' = IntV(exc.ecode)
              /\ pc' = "done"
        /\ ( /\ pc' = "done"
             /\ \E k \in 1..Len(log') :
                    log'[k].ev \in {"print_help", "print_version"} )
           => /\ Cardinality({k \in 1..Len(log') :
                    log'[k].ev \in {"print_help", "print_version"}}) = 1
              /\ {k \in 1..Len(log') : log'[k].ev = "main"} = {}
              /\ {k \in 1..Len(log') : log'[k].ev = "on_error"} = {}
              /\ exc' = AppExitError(EXIT_SUCCESS)
              /\ retcode' = IntV(EXIT_SUCCESS)
      ]_vars

\* "one -hz --foo": help of the sub-command printed; neither z nor --foo
\* is looked at, and the run returns 0
C12_Witness ==
    /\ app = "Sample"
    /\ argv0 = << Name_one, <<"-", "h", "z">>, Dashes \o <<"f", "o", "o">> >>
    /\ pc = "done"
    /\ cur = 2
    /\ \E k \in Events("print_help") : log[k].cmd = 2
    /\ state.argv = << Dashes \o <<"f", "o", "o">> >>
    /\ exc = AppExitError(EXIT_SUCCESS)
    /\ retcode = IntV(EXIT_SUCCESS)
    /\ Events("main") = {}

---------------------------------------------------------------------------
(* C13: for the spec switch("zlib"), each call of --zlib or --no-zlib      *)
(* writes the one key zlib (True for --zlib, False for --no-zlib) and      *)
(* touches no other key; after a successful parse store[zlib] is the value *)
(* of the last of the two options consumed, and False when none was.       *)
Name_no_zlib == <<"n", "o", "-">> \o Name_zlib

C13_Switch ==
    [][ /\ (app = "Switch" /\ LongMatch({"FlagOption"}))
           => cmds'[1].opts =
                (Name_zlib :> BoolV(LongName = Name_zlib)) @@ opts(1)
        /\ (app = "Switch" /\ pc' = "done" /\ exc' = NoExc)
           => LET n == Len(argv0) - Len(state'.argv)
                  sw == {k \in 1..n : argv0[k] \in {Dashes \o Name_zlib,
                                                    Dashes \o Name_no_zlib}}
              IN  cmds'[1].opts[Name_zlib] =
                    IF sw = {} THEN BoolV(FALSE)
                    ELSE LET last == CHOOSE k \in sw : \A j \in sw : j <= k
                         IN  BoolV(argv0[last] = Dashes \o Name_zlib)
      ]_vars

\* "--zlib --no-zlib x": the later option decides, x is left over
C13_Witness ==
    /\ app = "Switch"
    /\ argv0 = << Dashes \o Name_zlib, Dashes \o Name_no_zlib, <<"x">> >>
    /\ pc = "done"
    /\ exc = NoExc
    /\ opts(1)[Name_zlib] = BoolV(FALSE)
    /\ state.argv = << <<"x">> >>

---------------------------------------------------------------------------
(* Helpers: the occurrences of the counter in a vector of the Scenario     *)
(* tokens, read as the command line reads: a token taken as the value of   *)
(* --input or -i is no occurrence, and nothing after the bare token that   *)
(* TARGET takes is parsed.                                                 *)
RECURSIVE Occurrences(_)
Occurrences(s) ==
    IF s = <<>> THEN 0
    ELSE LET h == Head(s)
             t == Tail(s)
             tt == IF t = <<>> THEN <<>> ELSE Tail(t)
         IN  CASE h = <<"-", "v", "v">> -> 2 + Occurrences(t)
               [] h = Dashes \o Name_verbose -> 1 + Occurrences(t)
               [] h = <<"-", "v", "i">> -> 1 + Occurrences(tt)
               [] h = Dashes \o Name_input -> Occurrences(tt)
               [] ~startswith(h, <<"-">>) -> 0
               [] OTHER -> Occurrences(t)

---------------------------------------------------------------------------
(* C14: every call of a Counter option, by its long name or by an alias in *)
(* a cluster, adds one to the stored value; so after a successful parse    *)
(* the store holds the default plus the number of occurrences: 0 + n for   *)
(* counter verbose/-v of the scenario spec, 2 + n for counter level/-l     *)
(* declared with default 2; and ["-vv", "-iA", "build"] yields {verbose: 2,         *)
(* input: "A", TARGET: "build"} with nothing left over.                    *)
C14_Counter ==
    [][ /\ (LongMatch({"CountOption"}) \/ ShortMatch({"CountOption"}))
           => /\ Matched.name \in DOMAIN opts(cur)
              /\ cmds'[cur].opts =
                    (Matched.name :> IntV(opts(cur)[Matched.name].v + 1))
                        @@ opts(cur)
              /\ exc' = NoExc
        /\ (app = "Scenario" /\ pc' = "subcommand")
           => cmds'[1].opts[Name_verbose] = IntV(0 + Occurrences(argv0))
        /\ (app = "Seed" /\ pc' = "subcommand")
           => cmds'[1].opts[Name_level] =
                IntV(2 + Cardinality({k \in 1..(Len(given) - Len(state'.argv)) :
                                        given[k] = <<"-", "l", "a">>}))
        /\ ( /\ app = "Scenario" /\ pc' = "subcommand"
             /\ argv0 = << <<"-", "v", "v">>, <<"-", "i", "A">>,
                           <<"b", "u", "i", "l", "d">> >> )
           => /\ cmds'[1].opts =
                    (Name_verbose :> IntV(2)) @@ (Name_input :> StrV(<<"A">>))
                    @@ (Name_TARGET :> StrV(<<"b", "u", "i", "l", "d">>))
              /\ state'.argv = <<>>
      ]_vars

\* "-vv -iA build" parsed: verbose 2, input A, TARGET build, nothing left
C14_Witness ==
    /\ app = "Scenario"
    /\ argv0 = << <<"-", "v", "v">>, <<"-", "i", "A">>,
                  <<"b", "u", "i", "l", "d">> >>
    /\ pc = "subcommand"
    /\ opts(1)[Name_verbose] = IntV(2)
    /\ opts(1)[Name_input] = StrV(<<"A">>)
    /\ opts(1)[Name_TARGET] = StrV(<<"b", "u", "i", "l", "d">>)
    /\ state.argv = <<>>

---------------------------------------------------------------------------
(* C15: within one parse, set_opts_defaults is called exactly once: by the *)
(* update that enters the first node of the chain, with that node as its   *)
(* argument, while the store is still empty and no token has been          *)
(* consumed.  The update that enters a later node changes only the         *)
(* most-recent-node reference: it seeds nothing and keeps the chain head.  *)
C15_SeedOnce ==
    [][ /\ (pc = "update" /\ state.pchain = 0)
           => /\ node = 1
              /\ state.argv = given
              /\ opts(cur) = EmptyStore
              /\ cmds' = set_opts_defaults(cmds, cur, chain, 1)
              /\ log' = Append(log, Event("set_opts_defaults", cur, <<>>))
              /\ state' = [state EXCEPT !.pchain = 1, !.parser = 1]
        /\ (pc = "update" /\ state.pchain # 0)
           => /\ node > 1
              /\ cmds' = cmds
              /\ log' = log
              /\ state' = [state EXCEPT !.parser = node]
              /\ state'.pchain = 1
        /\ pc \notin {"update", "run"} => state'.pchain = state.pchain
        /\ \A i \in 1..Len(cmds') :
              Cardinality({k \in 1..Len(log') :
                              /\ log'[k].ev = "set_opts_defaults"
                              /\ log'[k].cmd = i}) <= 1
      ]_vars

\* the fifth node of a chain entered: the head is still the first node and
\* the defaults were seeded once
C15_Witness ==
    /\ app = "BuildParserTest"
    /\ pc = "parse"
    /\ node = 5
    /\ state.pchain = 1
    /\ state.parser = 5
    /\ state.argv # given
    /\ Cardinality(Events("set_opts_defaults")) = 1

---------------------------------------------------------------------------
(* Helpers: the defaults a class declares, in spec order *)

\* the plain declarations of the class of the running command, in order
Items == flatten(OPTSPEC(app, cmds[cur].cls))

\* the default of the first declaration whose storage key is key
FirstDefault(key) ==
    LET ks == {k \in 1..Len(Items) : Items[k].keyname = key}
    IN  get_default(Items[CHOOSE k \in ks : \A j \in ks : k <= j])

\* the stores a command may hold when its defaults are seeded: the empty
\* one, and one holding a value under a key the chain seeds
PriorStores ==
    {EmptyStore} \cup
    { (k :> StrV(<<"p">>)) @@ EmptyStore :
        k \in DOMAIN set_opts_defaults(cmds, cur, chain, 1)[cur].opts }

---------------------------------------------------------------------------
(* C16: set_opts_defaults changes no key that the store already holds:     *)
(* whatever the store holds before the call, each key present before has   *)
(* the same value after; and when several declarations share a storage key *)
(* the first one in spec order supplies the seeded default.                *)
C16_SeedingSkipsPresentKeys ==
    (pc = "update" /\ state.pchain = 0)
    => /\ \A p \in PriorStores :
            LET before == [cmds EXCEPT ![cur].opts = p]
                after == set_opts_defaults(before, cur, chain, 1)
            IN  \A k \in DOMAIN p : after[cur].opts[k] = p[k]
       /\ (\A k \in 1..Len(Items) : Items[k].cls # "OptionSet")
          => LET after == set_opts_defaults(cmds, cur, chain, 1)
             IN  \A k \in 1..Len(Items) :
                    /\ Items[k].keyname \in DOMAIN after[cur].opts
                    /\ after[cur].opts[Items[k].keyname] =
                         FirstDefault(Items[k].keyname)

---------------------------------------------------------------------------
(* C17: the list a caller hands to run / parse_args is never changed by    *)
(* the parse, at any level and whether the parse succeeds or fails: the    *)
(* list given to the root stays the caller's vector, and the list given to *)
(* a sub-command (its parent's leftover) stays what it was when it was     *)
(* handed over, while the parse consumes tokens from its own copy.         *)
C17_CallerListUntouched ==
    [][ /\ cur' = cur => given' = given
        /\ cur' # cur => given' = state.argv
        /\ cur' = 1 => given' = argv0
      ]_vars

\* "one -ty --foo": the sub-command's parse consumed both tokens and failed;
\* both lists handed over are as they were
C17_Witness ==
    /\ app = "Sample"
    /\ argv0 = << Name_one, <<"-", "t", "y">>, Dashes \o <<"f", "o", "o">> >>
    /\ pc = "done"
    /\ cur = 2
    /\ exc = UnknownOptionError(Dashes \o <<"f", "o", "o">>)
    /\ state.argv = <<>>
    /\ given = << <<"-", "t", "y">>, Dashes \o <<"f", "o", "o">> >>

---------------------------------------------------------------------------
(* C18: an UnknownOption, ParseError (missing value, not a key-value       *)
(* option, required positional missing) or UnknownCommand raised at any    *)
(* level ends the run at once: the only step after it is the handler,      *)
(* which consumes no token, calls no action and no main, calls on_error    *)
(* once and makes the root's run return the failure code.                  *)
ErrorKinds == {"UnknownOptionError", "OptParseError", "UnknownCommandError"}

C18_FailFast ==
    [][ /\ (exc = NoExc /\ exc'.kind \in ErrorKinds)
           => /\ pc' = "raised"
              /\ log' = log
              /\ retcode' = None
        /\ (pc = "raised" /\ exc.kind \in ErrorKinds)
           => /\ state' = state /\ cmds' = cmds /\ exc' = exc
              /\ log' = Append(log, Event("on_error", cur, <<>>))
              /\ retcode' = IntV(EXIT_FAILURE)
              /\ pc' = "done"
        /\ (pc' = "done" /\ exc'.kind \in ErrorKinds)
           => /\ Cardinality({k \in 1..Len(log') : log'[k].ev = "on_error"}) = 1
              /\ log'[Len(log')].ev = "on_error"
              /\ {k \in 1..Len(log') : log'[k].ev \in {"main", "on_exit"}} = {}
              /\ retcode' = IntV(EXIT_FAILURE)
              /\ EXIT_FAILURE # 0
      ]_vars

\* "two --foo": the unknown option of the sub-command is handled once, by
\* the sub-command's run, and the root returns 1
C18_Witness ==
    /\ app = "Sample"
    /\ argv0 = << Name_two, Dashes \o <<"f", "o", "o">> >>
    /\ pc = "done"
    /\ cur = 2
    /\ exc = UnknownOptionError(Dashes \o <<"f", "o", "o">>)
    /\ Events("on_error") = {Len(log)}
    /\ log[Len(log)].cmd = 2
    /\ Events("main") = {}
    /\ retcode = IntV(EXIT_FAILURE)

---------------------------------------------------------------------------
(* C19: an Exit signal carrying code c, raised by exit(c) in a main or by  *)
(* a Help / Version action at any level, is caught by the exit clause: the *)
(* root's run returns exactly c and on_exit is called for it; on_error is  *)
(* not called and the failure code is not substituted, although the Exit   *)
(* type is a subtype of the registered application error.                  *)
C19_ExitCaught ==
    [][ /\ (pc = "raised" /\ exc.kind = "AppExitError")
           => /\ IsApplicationError(exc)
              /\ retcode' = IntV(exc.ecode)
              /\ log' = Append(log, Event("on_exit", cur, <<>>))
              /\ exc' = exc
              /\ pc' = "done"
        /\ (pc' = "done" /\ exc'.kind = "AppExitError")
           => /\ retcode' = IntV(exc'.ecode)
              /\ {k \in 1..Len(log') : log'[k].ev = "on_error"} = {}
              /\ {k \in 1..Len(log') : log'[k].ev = "on_exit"} = {Len(log')}
              /\ log'[Len(log')].cmd = cur
        /\ ( /\ pc' = "done" /\ app = "Deep"
             /\ argv0 = <<Name_mid, Name_leaf, <<"n", "o", "p", "e">> >> )
           => retcode' = IntV(2)
      ]_vars

\* "mid leaf nope": the main of the third-level command leaves through
\* exit(2), and 2 is what the root returns
C19_Witness ==
    /\ app = "Deep"
    /\ argv0 = <<Name_mid, Name_leaf, <<"n", "o", "p", "e">> >>
    /\ pc = "done"
    /\ cur = 3
    /\ exc = AppExitError(2)
    /\ retcode = IntV(2)
    /\ Events("on_exit") = {Len(log)}
    /\ Events("on_error") = {}

---------------------------------------------------------------------------
(* C20: the option the subcommand builder makes is a positional whose      *)
(* storage key is the reserved key, whatever name it is declared with and  *)
(* whatever keyname its caller supplied; the token its slot consumes is    *)
(* written under the reserved key of the running command, and that value   *)
(* is the name get_subcommand hands to the sub-command lookup.             *)
C20_ReservedSlot ==
    [][ /\ \A n \in {SUBCOMMAND_SLOT, Name_SUB, Name_TARGET} :
           \A sp \in {EmptySpec, Spec_keyname(<<"s", "u", "b">>, FALSE),
                      Spec_keyname(n, TRUE)} :
              /\ IsPositional(subcommand(n, sp))
              /\ subcommand(n, sp).name = n
              /\ subcommand(n, sp).keyname = SUBCOMMAND_SLOT
        /\ ( /\ pc = "parse" /\ chain[node].cls = "PosArg"
             /\ chain[node].action.keyname = SUBCOMMAND_SLOT
             /\ state.argv # <<>>
             /\ ~startswith(Head(state.argv), <<"-">>) )
           => /\ cmds'[cur].opts =
                    (SUBCOMMAND_SLOT :> StrV(Head(state.argv))) @@ opts(cur)
              /\ state'.argv = Tail(state.argv)
        /\ ( /\ pc' = "subcommand" /\ app = "Deep" /\ cur' = 2
             /\ given' # <<>> /\ ~startswith(Head(given'), <<"-">>) )
           => /\ SUBCOMMAND_SLOT \in DOMAIN cmds'[2].opts
              /\ cmds'[2].opts[SUBCOMMAND_SLOT] = StrV(Head(given'))
        /\ ( /\ pc = "subcommand" /\ SUBCOMMAND_SLOT \in DOMAIN opts(cur)
             /\ Truthy(opts(cur)[SUBCOMMAND_SLOT]) )
           => LET cls == load_subcommand(app, cmds[cur].cls,
                                         opts(cur)[SUBCOMMAND_SLOT])
              IN  IF cls = ""
                  THEN exc' = UnknownCommandError(opts(cur)[SUBCOMMAND_SLOT].v)
                  ELSE /\ Len(cmds') = Len(cmds) + 1
                       /\ cmds'[Len(cmds')].cls = cls
                       /\ cmds'[Len(cmds')].parent = cur
      ]_vars

\* "mid leaf": the slot declared as SUB with keyname "sub" stored leaf under
\* COMMAND in the second-level command, and leaf was looked up and run
C20_Witness ==
    /\ app = "Deep"
    /\ argv0 = <<Name_mid, Name_leaf>>
    /\ Len(cmds) = 3
    /\ cmds[3].cls = "DeepLeaf"
    /\ opts(2)[SUBCOMMAND_SLOT] = StrV(Name_leaf)
    /\ opts(2)[Name_SUB] = None
    /\ <<"s", "u", "b">> \notin DOMAIN opts(2)

---------------------------------------------------------------------------
(* Helpers: the nodes a declaration sequence calls for *)

\* the declarations split into groups: each positional alone, each maximal
\* run of consecutive non-positional declarations together
Groups(items) ==
    LET n == Len(items)
        starts == {k \in 1..n : \/ k = 1
                                \/ IsPositional(items[k])
                                \/ IsPositional(items[k - 1])}
        start(j) == CHOOSE k \in starts :
                       Cardinality({i \in starts : i <= k}) = j
        end(j) == IF j = Cardinality(starts) THEN n ELSE start(j + 1) - 1
    IN  [j \in 1..Cardinality(starts) |-> SubSeq(items, start(j), end(j))]

\* the long names a group of non-positional declarations brings
GroupNames(g) ==
    UNION { IF g[k].cls = "OptionSet" THEN DOMAIN g[k].long_opts
            ELSE {g[k].name} : k \in 1..Len(g) }

\* chain ch is the chain the declarations call for
ChainOf(ch, items) ==
    LET gs == Groups(items) IN
    IF items = <<>> THEN ch = <<OptionParser>>
    ELSE /\ Len(ch) = Len(gs)
         /\ \A k \in 1..Len(gs) :
               IF IsPositional(gs[k][1])
               THEN ch[k] = PosArg(gs[k][1])
               ELSE /\ ch[k].cls = "OptionSet"
                    /\ DOMAIN ch[k].long_opts = GroupNames(gs[k])
         /\ \A k \in 1..(Len(ch) - 1) :
               ~(ch[k].cls = "OptionSet" /\ ch[k + 1].cls = "OptionSet")

\* declaration sequences of at most MaxArgs declarations
Decls ==
    { PositionalOption(<<"P">>, EmptySpec), PositionalOption(<<"Q">>, EmptySpec),
      FlagOption(<<"f">>, <<"f">>, EmptySpec), KVOption(<<"k">>, <<"k">>, EmptySpec) }

DeclSeqs == UNION {[1..n -> Decls] : n \in 0..MaxArgs}

---------------------------------------------------------------------------
(* C21: build_parser yields, in declaration order, one positional-slot     *)
(* node per positional declaration and one option-set node per maximal run *)
(* of consecutive non-positional declarations, the head being the node of  *)
(* the first declaration; no two option-set nodes are adjacent; an empty   *)
(* spec yields the single inert node, which seeds nothing and consumes     *)
(* nothing.  Checked on the chain of every command that runs and, before   *)
(* the run on the empty vector, on every sequence of DeclSeqs.             *)
C21_ChainShape ==
    /\ (chain # <<>> /\ pc # "run") => ChainOf(chain, Items)
    /\ (chain = <<OptionParser>> /\ pc # "run")
       => /\ set_opts_defaults(cmds, cur, chain, 1) = cmds
          /\ opts(cur) = EmptyStore
          /\ state.argv = given
    /\ (pc = "run" /\ cur = 1 /\ argv0 = <<>>)
       => \A seq \in DeclSeqs : ChainOf(build_parser(<<seq>>), seq)

\* seven declarations built into five nodes
C21_Witness ==
    /\ app = "BuildParserTest"
    /\ pc = "done"
    /\ Len(Items) = 7
    /\ [k \in 1..Len(chain) |-> chain[k].cls] =
          <<"OptionSet", "PosArg", "PosArg", "OptionSet", "PosArg">>
    /\ DOMAIN chain[1].long_opts = {<<"n", "a", "m", "e">>, <<"s", "u", "r">>}
    /\ chain[3].action.name = <<"S", "U", "B">>

---------------------------------------------------------------------------
(* C22: every value an option contributes to a store, its seeded default   *)
(* and the writes of its action, is stored under the option's storage key  *)
(* (keyname), never under its display name when the two differ: the keys   *)
(* of every command's store are storage keys of the options its class      *)
(* declares.                                                               *)
C22_StoredUnderKeyname ==
    \A i \in 1..Len(cmds) :
        DOMAIN opts(i) \subseteq {o.keyname : o \in Declared(app, cmds[i].cls)}

---------------------------------------------------------------------------
(* Helpers: the value an action invocation writes *)

Writers == {"ConstOption", "FlagOption", "KVOption", "PositionalOption"}

\* the options of the running command's class with storage key key
DeclaredFor(key) ==
    {o \in Declared(app, cmds[cur].cls) : o.keyname = key}

\* the next step is a positional slot consuming the front token
SlotMatch ==
    /\ pc = "parse"
    /\ chain[node].cls = "PosArg"
    /\ state.argv # <<>>
    /\ ~startswith(Head(state.argv), <<"-">>)

\* the value the action invoked by the next step writes
Written(o) ==
    CASE o.cls = "PositionalOption" -> StrV(Head(state.argv))
      [] o.cls = "KVOption" ->
            IF pc = "shorts"
            THEN IF Tail(shorts) # <<>> THEN StrV(Tail(shorts))
                 ELSE StrV(Head(state.argv))
            ELSE StrV(Head(Tail(state.argv)))
      [] OTHER -> spec_get(o.spec, "value", BoolV(TRUE))

\* the next step stores v under key and changes no other key of the store
Writes(key, v) ==
    /\ key \in DOMAIN opts(cur)'
    /\ opts(cur)'[key] = v
    /\ \A k \in DOMAIN opts(cur) \ {key} :
          k \in DOMAIN opts(cur)' /\ opts(cur)'[k] = opts(cur)[k]

---------------------------------------------------------------------------
(* C23: after a successful parse every storage key of a Constant, Flag,    *)
(* KeyValue or Positional option holds the value written by the last       *)
(* action invocation targeting that key, or the seeded default when no     *)
(* token matched: the seeding step puts the default of each such option    *)
(* under its storage key, every later invocation of such an action writes  *)
(* its value under that key and changes no other key, and entering a later *)
(* node writes nothing.                                                    *)
C23_LastWriteOrDefault ==
    [][ /\ (pc = "update" /\ state.pchain = 0)
           => \A o \in Declared(app, cmds[cur].cls) :
                 (o.cls \in Writers /\ DeclaredFor(o.keyname) = {o})
                 => /\ o.keyname \in DOMAIN opts(cur)'
                    /\ opts(cur)'[o.keyname] = get_default(o)
        /\ (pc = "update" /\ state.pchain # 0) => cmds' = cmds
        /\ ((LongMatch(Writers) \/ ShortMatch(Writers)) /\ exc' = NoExc)
           => Writes(Matched.keyname, Written(Matched))
        /\ (SlotMatch /\ exc' = NoExc)
           => Writes(chain[node].action.keyname, Written(chain[node].action))
      ]_vars

---------------------------------------------------------------------------
(* Helpers: tokens the option set does not know *)

\* the front token is a long option, with or without a value
LongToken ==
    /\ InOptionSet
    /\ state.argv # <<>>
    /\ Head(state.argv) # Dashes
    /\ startswith(Head(state.argv), Dashes)

\* the next alias of the cluster is not in the short table
UnknownAlias ==
    /\ pc = "shorts"
    /\ shorts # <<>>
    /\ Head(shorts) \notin DOMAIN chain[node].short_opts

---------------------------------------------------------------------------
(* C24: a long name absent from the long table of the consuming option set *)
(* fails with UnknownOption naming "--name"; in a short cluster the first   *)
(* alias absent from the short table fails with UnknownOption naming       *)
(* "-char"; the stores keep every write made before it, and from the       *)
(* failure on no alias and no token is dispatched.                         *)
C24_UnknownOption ==
    [][ /\ (LongToken /\ LongName \notin DOMAIN chain[node].long_opts)
           => /\ exc' = UnknownOptionError(Dashes \o LongName)
              /\ pc' = "raised"
              /\ cmds' = cmds
        /\ UnknownAlias
           => /\ exc' = UnknownOptionError(<<"-", Head(shorts)>>)
              /\ pc' = "raised"
              /\ cmds' = cmds
        /\ (exc.kind = "UnknownOptionError")
           => /\ cmds' = cmds
              /\ state' = state
              /\ exc' = exc
              /\ pc' = "done"
      ]_vars

\* "-aze": a wrote its value, z failed, e was never dispatched
C24_Witness ==
    /\ app = "OptionSetTest"
    /\ argv0 = << <<"-", "a", "z", "e">> >>
    /\ pc = "done"
    /\ exc = UnknownOptionError(<<"-", "z">>)
    /\ opts(1)[Opt("a")] = StrV(<<"a">>)
    /\ opts(1)[Opt("e")] = StrV(<<"E">>)
    /\ retcode = IntV(EXIT_FAILURE)

---------------------------------------------------------------------------
(* Helpers: the slots filled and the bare tokens consumed *)

Bare(tok) == ~startswith(tok, <<"-">>)

\* the positional slot of node nd holds a value a token gave it
Filled(nd) ==
    /\ nd.cls = "PosArg"
    /\ nd.action.keyname \in DOMAIN opts(1)
    /\ opts(1)[nd.action.keyname] # get_default(nd.action)

\* the values of the filled slots, in declaration order
SlotValues ==
    LET ns == SelectSeq(chain, Filled)
    IN  [k \in 1..Len(ns) |-> opts(1)[ns[k].action.keyname].v]

\* the bare tokens among the tokens consumed so far
BareConsumed ==
    SelectSeq(SubSeq(argv0, 1, Len(argv0) - Len(state.argv)), Bare)

\* the class of the root declares no option that takes a token as value
NoValueOptions ==
    \A o \in Declared(app, RootClass(app)) : o.cls # "KVOption"

---------------------------------------------------------------------------
(* C25: a positional slot examines only the front token: it consumes it    *)
(* and invokes its action if and only if the vector is non-empty and the   *)
(* front token does not start with "-"; a non-required slot that cannot    *)
(* match leaves vector and stores unchanged and passes control on; in a    *)
(* command none of whose options takes a value the filled slots hold, in   *)
(* declaration order, exactly the bare tokens consumed, in order.          *)
C25_PositionalFront ==
    [][ /\ SlotMatch
           => /\ state'.argv = Tail(state.argv)
              /\ Writes(chain[node].action.keyname, StrV(Head(state.argv)))
              /\ exc' = NoExc
              /\ IF node < Len(chain) THEN node' = node + 1 /\ pc' = "update"
                 ELSE pc' = "subcommand"
        /\ ( /\ pc = "parse"
             /\ chain[node].cls = "PosArg"
             /\ ~SlotMatch
             /\ ~required(chain[node].action) )
           => /\ state' = state
              /\ cmds' = cmds
              /\ exc' = NoExc
              /\ IF node < Len(chain) THEN node' = node + 1 /\ pc' = "update"
                 ELSE pc' = "subcommand"
        /\ (Len(cmds') = 1 /\ NoValueOptions /\ chain' # <<>>)
           => SlotValues' = BareConsumed'
      ]_vars

\* "A -ph B": CLASS took A, SUB found -ph in front and stayed empty, the
\* option set took -ph, CMD took B
C25_Witness ==
    /\ app = "BuildParserTest"
    /\ argv0 = << <<"A">>, <<"-", "p", "h">>, <<"B">> >>
    /\ pc = "done"
    /\ exc = NoExc
    /\ opts(1)[<<"c", "l", "s">>] = StrV(<<"A">>)
    /\ <<"s", "u", "b">> \notin DOMAIN opts(1)
    /\ opts(1)[<<"c", "m", "d">>] = StrV(<<"B">>)
    /\ state.argv = <<>>

---------------------------------------------------------------------------
(* Helpers: a key-value option about to take the following token *)

\* the next step calls a key-value option by its long name with no value
\* or an empty one, or by its alias at the end of a cluster
TakesNext ==
    \/ LongMatch({"KVOption"})
    \/ ShortMatch({"KVOption"}) /\ Tail(shorts) = <<>>

\* the tokens that follow the option
Following == IF pc = "shorts" THEN state.argv ELSE Tail(state.argv)

---------------------------------------------------------------------------
(* C26: a key-value option that takes its value from the following token   *)
(* consumes that token verbatim whatever it is: a token starting with "-"  *)
(* or the literal "--" becomes the value, no option is dispatched for it   *)
(* and no terminator is recorded, and matching goes on in the same option  *)
(* set with the tokens after it.                                           *)
C26_ValueTokenVerbatim ==
    [][ (TakesNext /\ Following # <<>>)
        => /\ Writes(Matched.name, StrV(Head(Following)))
           /\ state'.argv = Tail(Following)
           /\ exc' = NoExc
           /\ log' = log
           /\ node' = node
           /\ pc' \in {"parse", "shorts"}
           /\ pc' = "shorts" => shorts' = <<>>
      ]_vars

\* "--output -- --help": "--" became the value of output, no terminator was
\* seen, and --help after it was matched
C26_Witness ==
    /\ app = "Sample"
    /\ argv0 = << Dashes \o Name_output, Dashes, Dashes \o Name_help >>
    /\ pc = "done"
    /\ opts(1)[Name_output] = StrV(Dashes)
    /\ Events("terminator") = {}
    /\ Events("print_help") # {}
    /\ retcode = IntV(EXIT_SUCCESS)

---------------------------------------------------------------------------
(* Helpers: a key-value option given an empty value *)

\* the front token is "--" n "=" for a key-value option n of the node
EmptyLong ==
    /\ LongToken
    /\ Head(state.argv) = Dashes \o LongName \o <<"=">>
    /\ LongName \in LongNames({"KVOption"})

\* the next alias is a key-value option and the cluster ends with it
EmptyShort == ShortMatch({"KVOption"}) /\ Tail(shorts) = <<>>

\* the form the option was used in
FormUsed ==
    IF pc = "shorts" THEN <<"-", Head(shorts)>> ELSE Dashes \o LongName

---------------------------------------------------------------------------
(* C27: a key-value option given an explicit empty value ("--name=") or an *)
(* empty short remainder ("-i", "-fi") takes the next token as its value   *)
(* when one exists; otherwise it fails with the missing-value ParseError   *)
(* naming the form used ("--name" or "-i"), and the stores keep what was   *)
(* written before, the write of the flag f of "-fi" included.              *)
C27_EmptyValue ==
    [][ (EmptyLong \/ EmptyShort)
        => /\ Following # <<>>
              => /\ Writes(Matched.name, StrV(Head(Following)))
                 /\ state'.argv = Tail(Following)
                 /\ exc' = NoExc
           /\ Following = <<>>
              => /\ exc' = MissingValue(FormUsed)
                 /\ pc' = "raised"
                 /\ cmds' = cmds
      ]_vars

\* "--input= x" stored x, then "-fi" at the end wrote force and failed
\* naming -i
C27_Witness ==
    /\ app = "KVOptionTest"
    /\ argv0 = << Dashes \o Name_input \o <<"=">>, <<"x">>, <<"-", "f", "i">> >>
    /\ pc = "done"
    /\ exc = MissingValue(<<"-", "i">>)
    /\ opts(1)[Name_input] = StrV(<<"x">>)
    /\ opts(1)[Name_force] = BoolV(TRUE)
    /\ retcode = IntV(EXIT_FAILURE)

---------------------------------------------------------------------------
(* Helpers: the declaration that owns a key of an option set *)

\* declaration d (an option or a nested option set) brings long name n
BringsLong(d, n) ==
    IF d.cls = "OptionSet" THEN n \in DOMAIN d.long_opts ELSE d.name = n

\* declaration d brings short alias a
BringsShort(d, a) ==
    IF d.cls = "OptionSet" THEN a \in DOMAIN d.short_opts
    ELSE a \in {d.aliases[i] : i \in 1..Len(d.aliases)}

\* the last declaration of group g with index in ks
Latest(g, ks) == g[CHOOSE k \in ks : \A j \in ks : j <= k]

\* the option the last declaration of g bringing long name n brings for it
LastLong(g, n) ==
    LET d == Latest(g, {k \in 1..Len(g) : BringsLong(g[k], n)})
    IN  IF d.cls = "OptionSet" THEN d.long_opts[n] ELSE d

\* the option the last declaration of g bringing alias a brings for it
LastShort(g, a) ==
    LET d == Latest(g, {k \in 1..Len(g) : BringsShort(g[k], a)})
    IN  IF d.cls = "OptionSet" THEN d.short_opts[a] ELSE d

\* the tables of option-set node nd are those of the declarations of g
TablesOf(nd, g) ==
    /\ DOMAIN nd.long_opts = GroupNames(g)
    /\ \A n \in DOMAIN nd.long_opts : nd.long_opts[n] = LastLong(g, n)
    /\ DOMAIN nd.short_opts =
          {a \in {"a", "c", "e", "h", "i", "k", "l", "m", "n", "o", "p", "q",
                  "s", "t", "v", "x", "y", "f"} :
              \E k \in 1..Len(g) : BringsShort(g[k], a)}
    /\ \A a \in DOMAIN nd.short_opts : nd.short_opts[a] = LastShort(g, a)

---------------------------------------------------------------------------
(* C28: within one option-set node, when two declarations (options or      *)
(* merged option sets) collide on a long name or on a short alias, the     *)
(* later one in declaration order owns the entry, and the entries under    *)
(* the other keys are those of their own last declaration; dispatch of a   *)
(* long name or an alias calls the option that owns the entry.             *)
C28_LaterDeclarationWins ==
    /\ [](\A k \in 1..Len(chain) :
            (pc # "run" /\ chain[k].cls = "OptionSet")
            => TablesOf(chain[k], Groups(Items)[k]))
    /\ [][ ((LongMatch({"ConstOption"}) \/ ShortMatch({"ConstOption"}))
            /\ exc' = NoExc)
           => LET g == Groups(Items)[node]
                  o == IF pc = "shorts" THEN LastShort(g, Head(shorts))
                       ELSE LastLong(g, LongName)
              IN  Writes(o.keyname, spec_get(o.spec, "value", BoolV(TRUE)))
         ]_vars

\* -m still calls the first mode, --mode the one merged last, -k the other
\* of the merged set, -x the last declaration
C28_Witness ==
    /\ app = "Collide"
    /\ pc = "done"
    /\ chain[1].long_opts[Name_mode].spec.value = StrV(<<"3">>)
    /\ chain[1].short_opts["m"].spec.value = StrV(<<"1">>)
    /\ chain[1].short_opts["k"].name = Name_other
    /\ chain[1].short_opts["x"].spec.value = StrV(<<"4">>)
    /\ chain[1].long_opts[Name_keep].aliases = <<"k">>
    /\ argv0 = << <<"-", "m">>, Dashes \o Name_mode, <<"-", "k">> >>
    /\ opts(1)[Name_mode] = StrV(<<"3">>)
    /\ opts(1)[Name_other] = StrV(<<"o">>)
    /\ opts(1)[Name_keep] = None

---------------------------------------------------------------------------
(* Helpers: the hooks of one command in the log *)

\* the positions of the calls of hook ev on command i
EventsOf(i, ev) == {k \in Events(ev) : log[k].cmd = i}

\* the hooks called while the tokens of a command are matched
MatchHooks == {"terminator", "print_help", "print_version"}

\* the hooks epcall calls when it catches
ExitHooks == {"on_error", "on_exit"}

\* command i has begun its run
Begun(i) == i < cur \/ pc # "run"

\* every position of ks is below every position of ls
Before(ks, ls) == \A k \in ks : \A l \in ls : k < l

---------------------------------------------------------------------------
(* C29: at every level of the command tree one run performs, in this order *)
(* and each at most once: initialization, default seeding, token matching, *)
(* sub-command resolution, then either the run of the sub-command or the   *)
(* command's own main.  A sub-command is initialized only after the parse  *)
(* of its parent went through its whole chain without error and resolved   *)
(* it, and a command that has begun its run has been initialized whether   *)
(* its parse then fails, exits or succeeds.                                *)
C29_RunOrder ==
    /\ \A i \in 1..Len(cmds) :
          /\ Cardinality(EventsOf(i, "initialize")) = (IF Begun(i) THEN 1 ELSE 0)
          /\ Cardinality(EventsOf(i, "set_opts_defaults")) <= 1
          /\ Cardinality(EventsOf(i, "main")) <= 1
          /\ \A k \in 1..Len(log) :
                (log[k].cmd = i /\ log[k].ev # "initialize")
                => Before(EventsOf(i, "initialize"), {k})
          /\ \A ev \in MatchHooks :
                /\ EventsOf(i, ev) # {} => EventsOf(i, "set_opts_defaults") # {}
                /\ Before(EventsOf(i, "set_opts_defaults"), EventsOf(i, ev))
                /\ Before(EventsOf(i, ev), EventsOf(i, "main"))
          /\ EventsOf(i, "main") # {}
             => /\ EventsOf(i, "set_opts_defaults") # {}
                /\ Before(EventsOf(i, "set_opts_defaults"), EventsOf(i, "main"))
                /\ \A j \in 1..Len(cmds) : cmds[j].parent # i
          /\ (Begun(i) /\ (i < cur \/ pc \in {"subcommand", "done"}
                                   \/ node > 1 \/ pc \in {"parse", "shorts"}))
             => EventsOf(i, "set_opts_defaults") # {}
          /\ i > 1
             => /\ cmds[i].parent = i - 1
                /\ EventsOf(i - 1, "set_opts_defaults") # {}
                /\ \A k \in 1..Len(log) : \A l \in EventsOf(i, "initialize") :
                      (log[k].cmd < i /\ log[k].ev \notin ExitHooks) => k < l
                /\ load_subcommand(app, cmds[i - 1].cls,
                                   subcommand_name(cmds, i - 1)) = cmds[i].cls
    /\ (pc = "run" /\ cur > 1)
       => /\ exc = NoExc
          /\ state.cmd = cur - 1
          /\ state.parser = Len(chain)
          /\ given = state.argv
    /\ pc \in {"raised", "done"} => EventsOf(cur, "initialize") # {}

\* "mid --" on the three-level tree: mid was initialized after the root had
\* seeded and matched, ran its own main, and its parse saw the terminator
C29_Witness ==
    /\ app = "Deep"
    /\ argv0 = <<Name_mid, Dashes>>
    /\ pc = "done"
    /\ Len(cmds) = 2
    /\ [k \in 1..Len(log) |-> <<log[k].cmd, log[k].ev>>] =
          << <<1, "initialize">>, <<1, "set_opts_defaults">>,
             <<2, "initialize">>, <<2, "set_opts_defaults">>,
             <<2, "terminator">>, <<2, "main">> >>

---------------------------------------------------------------------------
(* Helpers: exceptions no level handles *)

\* the exception of the running command is not the exit signal and is
\* registered on no command it passes through
Unregistered ==
    /\ exc # NoExc
    /\ exc.kind # "AppExitError"
    /\ \A j \in Lineage(cur) : ~Caught(cmds[j].cls, exc)

---------------------------------------------------------------------------
(* C30: an exception that is neither the exit signal nor of a kind         *)
(* registered with the dispatcher (ApplicationError being registered by    *)
(* default) is not turned into an exit code: it leaves run unchanged       *)
(* through every level of the command tree, run returns nothing, and       *)
(* neither on_error nor on_exit is called for it.                          *)
C30_UnregisteredPropagates ==
    /\ []((pc = "done" /\ Unregistered)
          => /\ retcode = None
             /\ Events("on_error") = {}
             /\ Events("on_exit") = {})
    /\ [][ Unregistered
           => /\ exc' = exc
              /\ retcode' = retcode
              /\ log' = log
              /\ cmds' = cmds
              /\ pc' = "done"
         ]_vars

\* the KeyError raised by the main of the sub-command left both levels
C30_Witness ==
    /\ app = "Catch"
    /\ argv0 = <<Name_sub>>
    /\ pc = "done"
    /\ cur = 2
    /\ exc = PythonError("KeyError")
    /\ retcode = None
    /\ Events("main") # {}
    /\ Events("on_error") = {}
    /\ Events("on_exit") = {}

---------------------------------------------------------------------------
(* Helpers: suffixes of token vectors *)

\* s is what is left of t after dropping tokens from its front
IsSuffix(s, t) ==
    /\ Len(s) <= Len(t)
    /\ s = SubSeq(t, Len(t) - Len(s) + 1, Len(t))

\* the option set of the running node has a bare token in front
BareFront ==
    /\ InOptionSet
    /\ state.argv # <<>>
    /\ Bare(Head(state.argv))

---------------------------------------------------------------------------
(* C31: at every step of a parse the working vector is a suffix of the     *)
(* vector the parse started with, itself a suffix of the root's input:     *)
(* every step of a parse leaves a suffix of the vector it found; an option *)
(* set that meets a bare token leaves the vector as it is, the bare token  *)
(* in front, and passes on without error.                                  *)
C31_WorkingVectorSuffix ==
    /\ [](/\ IsSuffix(state.argv, given)
          /\ IsSuffix(given, argv0))
    /\ [][ /\ pc = "run" => state'.argv = given
           /\ pc # "run" => IsSuffix(state'.argv, state.argv)
           /\ BareFront
              => /\ state' = state
                 /\ cmds' = cmds
                 /\ exc' = NoExc
                 /\ IF node < Len(chain)
                    THEN node' = node + 1 /\ pc' = "update"
                    ELSE pc' = "subcommand"
         ]_vars

\* "--optb foo -bar": the option set took --optb and left foo in front, the
\* slot took foo, and -bar is what is left
C31_Witness ==
    /\ app = "OptionSetTest"
    /\ argv0 = << Dashes \o Opt("b"), <<"f", "o", "o">>, <<"-", "b", "a", "r">> >>
    /\ pc = "done"
    /\ exc = NoExc
    /\ opts(1)[Opt("b")] = StrV(<<"b">>)
    /\ opts(1)[<<"a", "r", "g">>] = StrV(<<"f", "o", "o">>)
    /\ state.argv = << <<"-", "b", "a", "r">> >>

---------------------------------------------------------------------------
(* Helpers: options of the nodes further down the chain *)

\* the option-set nodes after the running one
LaterSets == {k \in (node + 1)..Len(chain) : chain[k].cls = "OptionSet"}

\* the front token names an option only a later option set declares
LaterLong ==
    /\ LongToken
    /\ LongName \notin DOMAIN chain[node].long_opts
    /\ \E k \in LaterSets : LongName \in DOMAIN chain[k].long_opts

\* the next alias of the cluster is one only a later option set declares
LaterShort ==
    /\ UnknownAlias
    /\ \E k \in LaterSets : Head(shorts) \in DOMAIN chain[k].short_opts

\* the running node is a positional slot and the last node of the chain
LastSlot ==
    /\ pc = "parse"
    /\ node = Len(chain)
    /\ chain[node].cls = "PosArg"

---------------------------------------------------------------------------
(* C32: an option is recognized only while the option set that declares it *)
(* is the node consuming: a token or alias naming an option declared only  *)
(* in a later option set fails with UnknownOption and calls no action;     *)
(* when the last node of the chain is a positional slot and it ends        *)
(* without error, what remains of the vector, dash-prefixed tokens         *)
(* included, stays as leftover and raises no option error.                 *)
C32_RecognizedInOwnNode ==
    [][ /\ LaterLong
           => /\ exc' = UnknownOptionError(Dashes \o LongName)
              /\ pc' = "raised"
              /\ cmds' = cmds
        /\ LaterShort
           => /\ exc' = UnknownOptionError(<<"-", Head(shorts)>>)
              /\ pc' = "raised"
              /\ cmds' = cmds
        /\ (LastSlot /\ exc' = NoExc)
           => /\ pc' = "subcommand"
              /\ state'.argv = (IF SlotMatch THEN Tail(state.argv)
                                ELSE state.argv)
        /\ pc = "subcommand"
           => /\ state' = state
              /\ exc'.kind \notin {"UnknownOptionError", "OptParseError"}
      ]_vars

\* --host is declared by the option set after the slots CLASS and SUB: as
\* the first token it is unknown to the option set consuming
C32_Witness ==
    /\ app = "BuildParserTest"
    /\ argv0 = << Dashes \o <<"h", "o", "s", "t">> >>
    /\ pc = "done"
    /\ node = 1
    /\ <<"h", "o", "s", "t">> \in DOMAIN chain[4].long_opts
    /\ exc = UnknownOptionError(Dashes \o <<"h", "o", "s", "t">>)
    /\ <<"h", "o", "s", "t">> \notin DOMAIN opts(1)
       \/ opts(1)[<<"h", "o", "s", "t">>] = None

---------------------------------------------------------------------------
(* Helpers: the reserved slot of the running command *)

\* the store of the running command selects no sub-command
NoneSelected ==
    \/ SUBCOMMAND_SLOT \notin DOMAIN opts(cur)
    \/ ~Truthy(opts(cur)[SUBCOMMAND_SLOT])

---------------------------------------------------------------------------
(* C33: sub-command selection reads only the store of the command itself,  *)
(* never an ancestor's: a command whose own store selects nothing creates  *)
(* no sub-command and calls its own main with the leftover, whatever name  *)
(* the stores of its ancestors hold; every dispatch has consumed one token *)
(* of its own, so the depth of the dispatch is at most the number of       *)
(* tokens consumed before the running level, hence of input tokens.        *)
C33_OwnStoreSelects ==
    /\ [](/\ (cur - 1) + Len(given) <= Len(argv0)
          /\ Len(cmds) - 1 <= Len(argv0)
          /\ \A i \in 2..Len(cmds) :
                /\ Truthy(subcommand_name(cmds, i - 1))
                /\ opts(i - 1)[SUBCOMMAND_SLOT].v
                      \in {argv0[k] : k \in 1..Len(argv0)})
    /\ [][ (pc = "subcommand" /\ NoneSelected)
           => /\ cmds' = cmds
              /\ cur' = cur
              /\ log' = Append(log, Event("main", cur, state.argv))
         ]_vars

\* "one": OneCmd declares no sub-command positional; the name one is
\* visible to it through the root's store, and it ran its own main
C33_Witness ==
    /\ app = "Sample"
    /\ argv0 = <<Name_one>>
    /\ pc = "done"
    /\ cur = 2
    /\ Len(cmds) = 2
    /\ opts(1)[SUBCOMMAND_SLOT] = StrV(Name_one)
    /\ SUBCOMMAND_SLOT \notin DOMAIN opts(2)
    /\ get_optval(cmds, 2, SUBCOMMAND_SLOT, None) = StrV(Name_one)
    /\ log[Len(log)] = Event("main", 2, <<>>)

---------------------------------------------------------------------------
(* Helpers: what a parse has left to do *)

InParse == pc \in {"update", "parse", "shorts"}

\* the nodes still to enter, then the tokens in the vector, then the rest
\* of the cluster: three natural numbers compared in this order
Rank ==
    << 2 * (Len(chain) - node) + (IF pc = "update" THEN 1 ELSE 0),
       Len(state.argv),
       IF pc = "shorts" THEN Len(shorts) + 1 ELSE 0 >>

\* r comes before q in the lexicographic order
LexLess(r, q) ==
    \/ r[1] < q[1]
    \/ r[1] = q[1] /\ r[2] < q[2]
    \/ r[1] = q[1] /\ r[2] = q[2] /\ r[3] < q[3]

---------------------------------------------------------------------------
(* C34: parsing terminates: every iteration of the token loop of an option *)
(* set removes a token from the vector or ends the loop, every iteration   *)
(* of the short-cluster loop strictly shortens the rest of the cluster or  *)
(* raises, every node is entered at most once per parse, in chain order;   *)
(* the triple of the nodes left, the tokens left and the rest of the       *)
(* cluster decreases lexicographically with every step inside the parse.   *)
C34_ParseTerminates ==
    [][    /\ InOptionSet
              => \/ /\ Len(state'.argv) < Len(state.argv)
                    /\ node' = node
                    /\ pc' \in {"parse", "shorts"}
                 \/ pc' \in {"update", "subcommand", "raised"}
           /\ (pc = "shorts" /\ shorts # <<>>)
              => \/ Len(shorts') < Len(shorts) /\ pc' = "shorts"
                 \/ pc' = "raised"
           /\ pc' = "update"
              => \/ pc = "run" /\ node' = 1
                 \/ pc = "parse" /\ node' = node + 1
           /\ pc \in {"update", "parse", "shorts"}
              => /\ node' >= node
                 /\ chain' = chain
                 /\ (node' = node \/ pc' = "update")
           /\ (InParse /\ pc' \in {"update", "parse", "shorts"})
              => /\ LexLess(Rank', Rank)
                 /\ \A k \in 1..3 : Rank'[k] >= 0
         ]_vars

\* the three nodes of the Seed chain were each entered once, the cluster
\* -la was worn down alias by alias, and the parse ended
C34_Witness ==
    /\ app = "Seed"
    /\ argv0 = << <<"-", "l", "a">>, <<"x">>, Dashes \o Opt("a") >>
    /\ pc = "done"
    /\ exc = NoExc
    /\ state.parser = Len(chain)
    /\ Len(chain) = 3
    /\ state.argv = <<>>
    /\ opts(1)[Name_level] = IntV(3)

---------------------------------------------------------------------------
(* C35: no token is silently dropped by an option set: every token it      *)
(* removes from the vector, other than the terminator "--", invokes an     *)
(* option action or raises an error: a long token is dispatched to an      *)
(* option of the long table or raises, and a token starting with a single  *)
(* "-" hands at least one alias to the dispatch of the cluster; the token  *)
(* "-" alone is not consumed without effect.                               *)
C35_NoTokenDropped ==
    [][ /\ LongToken
           => \/ LongName \in DOMAIN chain[node].long_opts
              \/ exc' # NoExc
        /\ ( /\ InOptionSet
             /\ state.argv # <<>>
             /\ ~startswith(Head(state.argv), Dashes)
             /\ Len(state'.argv) < Len(state.argv) )
           => /\ pc' = "shorts"
              /\ shorts' # <<>>
      ]_vars

====
